---- MODULE Spec2Model ----
(***************************************************************************)
(* icequery: a monitoring client of the icecream scheduler.  The model     *)
(* covers the option parsing of the timeouts, the discovery loop, the      *)
(* login, the ingestion (poll / drain) loop in its three shapes            *)
(* (single-shot, useless-streak, useful-poll), NodeInfo::create and the    *)
(* final aggregation, as written in main() of the revisions under src/.    *)
(***************************************************************************)
EXTENDS Integers, Sequences, FiniteSets, TLC

(***************************************************************************)
(* Program constants.                                                      *)
(***************************************************************************)
\* the prototype's limits
maxPollRetries == 50
pollTimeout == 3000
maxRetries == 50

TIMEOUT_DEFAULT == 2000
RTIMEOUT_DEFAULT == 2000
USELESS_POLLS_IN_A_ROW_MAX == 3
EXIT_OK == 0
EXIT_INVALID_ARGS == 1
EXIT_CONNECTION_ERR == 2
EXIT_NO_DATA == 3
EXIT_LIBRARY_ERR == 4

(***************************************************************************)
(* Bounds of the model.                                                    *)
(***************************************************************************)
MaxHostId == 2
MaxPolls == 3
MaxDrain == 2
MaxClock == 2
MaxLines == 4
MaxParseHostId == 1
MaxAggNodes == 3
MaxCols == 3
MaxRows == 2
MaxPrinted == 1

(***************************************************************************)
(* 32-bit integers.  TLC's integers are 32-bit signed, so an unsigned      *)
(* 32-bit value is kept as two 16-bit limbs [hi, lo].                      *)
(***************************************************************************)
Limb == 65536
HalfLimb == 32768
IntMax == 2147483647

U32(hi, lo) == [hi |-> hi, lo |-> lo]
U32Zero == U32(0, 0)

\* the magnitude of n: a negative n loses its sign
IntToU32_Magnitude(n) ==
    IF n >= 0 THEN U32(n \div Limb, n % Limb)
    ELSE U32((0 - n) \div Limb, (0 - n) % Limb)

\* static_cast<uint32_t>( n ) of an int n
IntToU32(n) == IF n >= 0 THEN U32(n \div Limb, n % Limb)
               ELSE U32(Limb + (n \div Limb), n % Limb)

\* the int that holds the bit pattern of the unsigned u: what sscanf's %u
\* leaves in an int object
U32ToInt(u) == IF u.hi >= HalfLimb THEN (u.hi - Limb) * Limb + u.lo
               ELSE u.hi * Limb + u.lo

U32Add(a, b) ==
    LET lo == a.lo + b.lo
        hi == a.hi + b.hi + (lo \div Limb)
    IN  U32(hi % Limb, lo % Limb)

(***************************************************************************)
(* std::string as a sequence of one-character strings; positions are       *)
(* 0-based as in the code, npos is std::string::npos.                      *)
(***************************************************************************)
npos == 0 - 1

UpperChars == <<"A","B","C","D","E","F","G","H","I","J","K","L","M",
                "N","O","P","Q","R","S","T","U","V","W","X","Y","Z">>
LowerChars == <<"a","b","c","d","e","f","g","h","i","j","k","l","m",
                "n","o","p","q","r","s","t","u","v","w","x","y","z">>
DigitChars == <<"0","1","2","3","4","5","6","7","8","9">>

\* no lower-casing at all
tolower_Identity(c) == c

tolower(c) ==
    IF \E i \in 1..Len(UpperChars) : UpperChars[i] = c
    THEN LowerChars[CHOOSE i \in 1..Len(UpperChars) : UpperChars[i] = c]
    ELSE c

toLower(str) == [i \in 1..Len(str) |-> tolower(str[i])]

\* std::string::find( ch, pos )
RECURSIVE Find(_, _, _)
Find(str, ch, pos) ==
    IF pos = npos \/ pos >= Len(str) THEN npos
    ELSE IF str[pos + 1] = ch THEN pos
    ELSE Find(str, ch, pos + 1)

\* std::string::substr( pos, n ), n = npos for "to the end"
Substr(str, pos, n) ==
    IF n = npos \/ pos + n > Len(str)
    THEN SubSeq(str, pos + 1, Len(str))
    ELSE SubSeq(str, pos + 1, pos + n)

(***************************************************************************)
(* std::stoi( value ): leading white space is skipped, an optional sign,   *)
(* then decimal digits up to the first other character.  No digit:         *)
(* std::invalid_argument; outside int: std::out_of_range.                  *)
(***************************************************************************)
IsSpace(c) == c \in {" ", "\t", "\n", "\r", "\f"}
IsDigit(c) == \E i \in 1..Len(DigitChars) : DigitChars[i] = c
DigitVal(c) == (CHOOSE i \in 1..Len(DigitChars) : DigitChars[i] = c) - 1

RECURSIVE SkipSpace(_, _)
SkipSpace(str, i) ==
    IF i <= Len(str) /\ IsSpace(str[i]) THEN SkipSpace(str, i + 1) ELSE i

\* the digits from position i on, accumulated with the sign applied;
\* [ok |-> FALSE] when the value leaves the range of int
RECURSIVE AccDigits(_, _, _, _)
AccDigits(str, i, neg, acc) ==
    IF i > Len(str) \/ ~IsDigit(str[i]) THEN [ok |-> TRUE, val |-> acc]
    ELSE LET d == DigitVal(str[i])
         IN  IF neg
             THEN IF acc < ((0 - IntMax) - 1 + d + 9) \div 10
                  THEN [ok |-> FALSE]
                  ELSE AccDigits(str, i + 1, neg, acc * 10 - d)
             ELSE IF acc > (IntMax - d) \div 10
                  THEN [ok |-> FALSE]
                  ELSE AccDigits(str, i + 1, neg, acc * 10 + d)

stoi(value) ==
    LET s == SkipSpace(value, 1)
        signed == s <= Len(value) /\ value[s] \in {"+", "-"}
        neg == signed /\ value[s] = "-"
        d == IF signed THEN s + 1 ELSE s
    IN  IF d > Len(value) \/ ~IsDigit(value[d])
        THEN [ok |-> FALSE, what |-> "invalid_argument"]
        ELSE LET r == AccDigits(value, d, neg, 0)
             IN  IF r.ok THEN r ELSE [ok |-> FALSE, what |-> "out_of_range"]

(***************************************************************************)
(* NodeInfo.  m_maxJobs is a uint32_t (two limbs); a result of             *)
(* NodeInfo::create is a node, the null pointer, or an exception that      *)
(* leaves create (std::stoi throws and nothing catches it).                *)
(***************************************************************************)
NullNode == [kind |-> "null"]
Thrown(what) == [kind |-> "throw", what |-> what]

\* NodeInfo::NodeInfo( hostId )
NewNodeInfo(hostId) ==
    [kind |-> "node", hostId |-> hostId, name |-> <<>>, ip |-> <<>>,
     maxJobs |-> U32Zero, noRemote |-> FALSE, offline |-> FALSE,
     platform |-> <<>>]

\* the validity check without the test of m_maxJobs
isValid_NoMaxJobs(node) ==
    /\ node.hostId # 0
    /\ node.name # <<>>
    /\ node.ip # <<>>
    /\ node.platform # <<>>

\* NodeInfo::isValid
isValid(node) ==
    /\ node.hostId # 0
    /\ node.name # <<>>
    /\ node.ip # <<>>
    /\ node.maxJobs # U32Zero
    /\ node.platform # <<>>

STR_name == <<"n","a","m","e">>
STR_ip == <<"i","p">>
STR_maxjobs == <<"m","a","x","j","o","b","s">>
STR_noremote == <<"n","o","r","e","m","o","t","e">>
STR_state == <<"s","t","a","t","e">>
STR_platform == <<"p","l","a","t","f","o","r","m">>
STR_true == <<"t","r","u","e">>
STR_offline == <<"o","f","f","l","i","n","e">>

\* the if / else-if chain that stores one key's value in the node
SetField(res, name, value) ==
    IF name = STR_name THEN [res EXCEPT !.name = value]
    ELSE IF name = STR_ip THEN [res EXCEPT !.ip = value]
    ELSE IF name = STR_maxjobs
         THEN LET n == stoi(value)
              IN  IF n.ok THEN [res EXCEPT !.maxJobs = IntToU32(n.val)]
                  ELSE Thrown(n.what)
    ELSE IF name = STR_noremote
         THEN [res EXCEPT !.noRemote = (toLower(value) = STR_true)]
    ELSE IF name = STR_state
         THEN [res EXCEPT !.offline = (toLower(value) = STR_offline)]
    ELSE IF name = STR_platform THEN [res EXCEPT !.platform = value]
    ELSE res

\* whether the line that starts at linePos has a colon before its newline
HasKeyValue(colonPos, nextLinePos) ==
    colonPos # npos /\ ~(nextLinePos # npos /\ colonPos > nextLinePos)

\* the while( true ) loop of create, from the line at linePos on
RECURSIVE ScanLines(_, _, _)
ScanLines(stats, linePos, res) ==
    LET nextLinePos == Find(stats, "\n", linePos)
        colonPos == Find(stats, ":", linePos)
        name == toLower(Substr(stats, linePos, colonPos - linePos))
        value == Substr(stats, colonPos + 1,
                        IF nextLinePos = npos THEN npos
                        ELSE nextLinePos - (colonPos + 1))
        res1 == IF HasKeyValue(colonPos, nextLinePos)
                THEN SetField(res, name, value)
                ELSE res
    IN  IF res1.kind = "throw" THEN res1
        ELSE IF nextLinePos = npos THEN res1
        ELSE IF nextLinePos + 1 > Len(stats) THEN res1
        ELSE ScanLines(stats, nextLinePos + 1, res1)

\* NodeInfo::create( hostId, stats )
NodeInfoCreate(hostId, stats) ==
    IF hostId = 0 THEN NullNode
    ELSE LET res == ScanLines(stats, 0, NewNodeInfo(hostId))
         IN  IF res.kind = "throw" THEN res
             ELSE IF ~isValid(res) THEN NullNode
             ELSE res

(***************************************************************************)
(* Inputs of a run.                                                        *)
(***************************************************************************)
\* the three shapes of main(): one poll and one drain ("single"), the
\* useless-streak loop ("streak"), the useful-poll loop ("latest")
Revisions == {"single", "streak", "latest"}

\* an option argument as sscanf( optarg, "%u", ... ) reads it: the unsigned
\* value scanned, or no conversion at all
NoArg == [given |-> FALSE]
BadArg == [given |-> TRUE, ok |-> FALSE]
UArg(hi, lo) == [given |-> TRUE, ok |-> TRUE, u |-> U32(hi, lo)]
TimeoutArgs == {NoArg, BadArg, UArg(0, 0), UArg(Limb - 1, Limb - 1)}
RTimeoutArgs == {NoArg, BadArg, UArg(HalfLimb, 0)}

FlagSets == {{}, {"no-offline"}, {"no-noremote"}, {"no-offline", "no-noremote"},
             {"brief"}, {"no-table"}, {"ascii"}}

\* the stats blobs the scheduler sends
LF == <<"\n">>
LineName == <<"n","a","m","e",":","a">>
LineIp == <<"i","p",":","1">>
LineMaxJobs == <<"m","a","x","j","o","b","s",":","4">>
LineMaxJobsBad == <<"m","a","x","j","o","b","s",":","x">>
LinePlatform == <<"p","l","a","t","f","o","r","m",":","x">>
LineNameEmpty == <<"n","a","m","e",":">>
LineMaxJobsZero == <<"m","a","x","j","o","b","s",":","0">>
LineJunk == <<"j","u","n","k">>
LineOffline == <<"S","t","a","t","e",":","O","f","f","l","i","n","e">>
LineNoRemote == <<"N","o","R","e","m","o","t","e",":","t","r","u","e">>
LineNameUpper == <<"N","A","M","E",":","b">>
LineIpColons == <<"I","p",":","1",":","2">>
LineUnknown == <<"f","o","o",":","1">>

BlobPlain == LineName \o LF \o LineIp \o LF \o LineMaxJobs \o LF \o LinePlatform \o LF
BlobOffline == BlobPlain \o LineOffline \o LF
BlobNoRemote == BlobPlain \o LineNoRemote \o LF
BlobNoMaxJobs == LineName \o LF \o LineIp \o LF \o LinePlatform \o LF
BlobBadMaxJobs == LineName \o LF \o LineMaxJobsBad \o LF

\* the blobs create is called on by itself: up to MaxLines lines of the
\* catalogue, joined by newlines, with or without a final newline
LineCatalogue == {LineName, LineNameEmpty, LineIp, LineMaxJobs, LineMaxJobsZero,
                  LineMaxJobsBad, LinePlatform, LineJunk, LineNameUpper,
                  LineIpColons, LineUnknown}

RECURSIVE JoinLines(_)
JoinLines(lines) ==
    IF lines = <<>> THEN <<>>
    ELSE IF Len(lines) = 1 THEN Head(lines)
    ELSE Head(lines) \o LF \o JoinLines(Tail(lines))

LineSeqs == UNION {[1..n -> LineCatalogue] : n \in 0..MaxLines}
ParseBlobs == {JoinLines(ls) : ls \in LineSeqs} \cup {JoinLines(ls) \o LF : ls \in LineSeqs}

\* blobs as the scheduler formats them for reading: a space after each colon,
\* and the same without the spaces
BlobSpaced ==
    <<"n","a","m","e",":"," ","a","l","p","h","a","\n","i","p",":"," ","1","0",".","0",".","0",".","1","\n","m","a","x","j","o","b","s",":"," ","4","\n","p","l","a","t","f","o","r","m",":"," ","x","8","6","_","6","4","\n">>
BlobUnspaced ==
    <<"n","a","m","e",":","a","l","p","h","a","\n","i","p",":","1","0",".","0",".","0",".","1","\n","m","a","x","j","o","b","s",":","4","\n","p","l","a","t","f","o","r","m",":","x","8","6","_","6","4","\n">>

StatBlobs == {BlobPlain, BlobOffline, BlobNoRemote, BlobNoMaxJobs, BlobBadMaxJobs}
HostIds == 0..MaxHostId

(***************************************************************************)
(* State of a run of main().                                               *)
(***************************************************************************)
VARIABLES
    rev,            \* which revision of main() runs
    pc,             \* where main() is
    timeout,        \* int timeout
    rtimeout,       \* int rtimeout (latest revision)
    flags,          \* the flag options given
    channel,        \* whether channel holds a MsgChannel
    provTimedOut,   \* what discover->timed_out() last answered
    clock,          \* getTimestamp() - channelTimestamp at the last reading
    bulk,           \* setBulkTransfer() was called on the channel
    loginState,     \* send_msg( MonLoginMsg() ): "no" call yet, "ok", "failed"
    pollCount,      \* calls of poll() so far
    pollArg,        \* the timeout of the last poll() call
    pollRes,        \* its result
    drained,        \* messages taken in the current drain
    nodes,          \* std::vector of NodeInfo
    hostIdMax,
    wasPollUseful,
    uselessPollsInARow,
    lastMsg,        \* the last message taken and whether it was accepted
    exitCode,       \* the exit status once pc = "done"
    stdout,         \* what was printed to stdout
    pHostId,        \* create called on its own: the arguments ...
    pStats,
    pRes,           \* ... and the result
    header,         \* renderTable: the column headers ...
    strings,        \* ... and the cells of the rows, row by row
    trans,          \* whether renderTable has a transliterator
    colMaxLens,     \* the width of each column
    data,           \* the cells, header row first, as they are worked on
    lens,           \* the measured length of each cell
    table,          \* the text renderTable returns
    attempted,      \* try_get_scheduler() was called at least once
    retries,        \* the prototype's main(): failed discovery attempts counted
    pollRetries,    \* the prototype's pollingThreadEntry(): poll() timeouts counted
    threadStatus,   \* the prototype's global threadStatus
    attempts,       \* the prototype: calls of try_get_scheduler() so far
    timeouts        \* the prototype: calls of poll() that returned 0 so far

vars == <<rev, pc, timeout, rtimeout, flags, channel, provTimedOut, clock,
          bulk, loginState, pollCount, pollArg, pollRes, drained, nodes,
          hostIdMax, wasPollUseful, uselessPollsInARow, lastMsg, exitCode,
          stdout, pHostId, pStats, pRes, header, strings, trans, colMaxLens,
          data, lens, table, attempted, retries, pollRetries, threadStatus,
          attempts, timeouts>>

argVars == <<timeout, rtimeout, flags>>
discVars == <<channel, provTimedOut, clock, attempted>>
chanVars == <<bulk, loginState>>
pollVars == <<pollCount, pollArg, pollRes>>
ingestVars == <<drained, nodes, hostIdMax, wasPollUseful, uselessPollsInARow, lastMsg>>
createVars == <<pHostId, pStats, pRes>>
renderVars == <<header, strings, trans, colMaxLens, data, lens, table>>
protoVars == <<retries, pollRetries, threadStatus, attempts, timeouts>>

NoExit == 0 - 1
NoMsg == [type |-> "none"]

\* return code; from main()
Return(code) == pc' = "done" /\ exitCode' = code

Init ==
    /\ rev \in Revisions
    /\ pc = "args"
    /\ timeout = TIMEOUT_DEFAULT
    /\ rtimeout = RTIMEOUT_DEFAULT
    /\ flags = {}
    /\ channel = FALSE
    /\ provTimedOut = FALSE
    /\ clock = 0
    /\ attempted = FALSE
    /\ retries = 0
    /\ pollRetries = 0
    /\ threadStatus = 0
    /\ attempts = 0
    /\ timeouts = 0
    /\ bulk = FALSE
    /\ loginState = "no"
    /\ pollCount = 0
    /\ pollArg = 0
    /\ pollRes = 0
    /\ drained = 0
    /\ nodes = <<>>
    /\ hostIdMax = 0
    /\ wasPollUseful = FALSE
    /\ uselessPollsInARow = 0
    /\ lastMsg = NoMsg
    /\ exitCode = NoExit
    /\ stdout = <<>>
    /\ pHostId = 0
    /\ pStats = <<>>
    /\ pRes = NullNode
    /\ header = <<>>
    /\ strings = <<>>
    /\ trans = FALSE
    /\ colMaxLens = <<>>
    /\ data = <<>>
    /\ lens = <<>>
    /\ table = <<>>

(***************************************************************************)
(* Option parsing: the getopt_long loop, for the options the model gives.  *)
(***************************************************************************)
\* sscanf( optarg, "%u", &timeout ): the int after the call
ScanU(arg, old) == IF arg.given /\ arg.ok THEN U32ToInt(arg.u) ELSE old

ParseArgs ==
    /\ pc = "args"
    /\ \E t \in TimeoutArgs, r \in RTimeoutArgs, f \in FlagSets :
        /\ rev # "latest" => r = NoArg
        /\ timeout' = ScanU(t, timeout)
        /\ rtimeout' = ScanU(r, rtimeout)
        /\ IF (t.given /\ ~t.ok) \/ (r.given /\ ~r.ok)
           THEN Return(EXIT_INVALID_ARGS) /\ flags' = {}
           ELSE pc' = "discover" /\ flags' = f /\ UNCHANGED exitCode
    /\ UNCHANGED <<rev, discVars, chanVars, pollVars, ingestVars, stdout, createVars, renderVars, protoVars>>

(***************************************************************************)
(* Discovery: the do / while loop around try_get_scheduler().              *)
(***************************************************************************)
\* the condition with < for <=: the loop gives up one tick early
DiscoverAgain_Early(chan, elapsed, tmo) == ~chan /\ elapsed < tmo

\* the loop condition: !channel && ( getTimestamp() - channelTimestamp ) <= timeout
DiscoverAgain(chan, elapsed, tmo) == ~chan /\ elapsed <= tmo

\* the loop as a while loop: the condition is tested before the first attempt
Attempt_PreTest ==
    /\ pc = "discover"
    /\ IF ~attempted /\ ~DiscoverAgain(channel, clock, timeout)
       THEN /\ pc' = "postloop"
            /\ UNCHANGED <<channel, attempted, provTimedOut, clock, exitCode>>
       ELSE \E got \in BOOLEAN, to \in BOOLEAN, d \in 0..1 :
            /\ clock + d <= MaxClock
            /\ channel' = got
            /\ attempted' = TRUE
            /\ provTimedOut' = (provTimedOut \/ to)
            /\ IF provTimedOut'
               THEN Return(EXIT_CONNECTION_ERR) /\ UNCHANGED clock
               ELSE /\ clock' = clock + d
                    /\ pc' = IF DiscoverAgain(got, clock', timeout)
                             THEN "discover" ELSE "postloop"
                    /\ UNCHANGED exitCode
    /\ UNCHANGED <<rev, argVars, chanVars, pollVars, ingestVars, stdout, createVars, renderVars, protoVars>>

\* one iteration of the loop: try_get_scheduler(), timed_out(), the condition
Attempt ==
    /\ pc = "discover"
    /\ \E got \in BOOLEAN, to \in BOOLEAN, d \in 0..1 :
        /\ clock + d <= MaxClock
        /\ channel' = got
        /\ attempted' = TRUE
        /\ provTimedOut' = (provTimedOut \/ to)
        /\ IF provTimedOut'
           THEN Return(EXIT_CONNECTION_ERR) /\ UNCHANGED clock
           ELSE /\ clock' = clock + d
                /\ pc' = IF DiscoverAgain(got, clock', timeout)
                         THEN "discover" ELSE "postloop"
                /\ UNCHANGED exitCode
    /\ UNCHANGED <<rev, argVars, chanVars, pollVars, ingestVars, stdout, createVars, renderVars, protoVars>>

\* PostLoop without the call of setBulkTransfer()
PostLoop_NoBulk ==
    /\ pc = "postloop"
    /\ \E to \in BOOLEAN :
        /\ provTimedOut' = (provTimedOut \/ to)
        /\ IF provTimedOut' \/ ~channel
           THEN Return(EXIT_CONNECTION_ERR) /\ UNCHANGED clock
           ELSE clock' = 0 /\ pc' = "login" /\ UNCHANGED exitCode
    /\ UNCHANGED <<rev, argVars, channel, attempted, chanVars, pollVars, ingestVars, stdout, createVars, renderVars, protoVars>>

\* after the loop: timed_out() once more, the null check, setBulkTransfer().
\* The clock is not read again and is left out of the state from here on.
PostLoop ==
    /\ pc = "postloop"
    /\ \E to \in BOOLEAN :
        /\ provTimedOut' = (provTimedOut \/ to)
        /\ IF provTimedOut' \/ ~channel
           THEN Return(EXIT_CONNECTION_ERR) /\ UNCHANGED <<bulk, clock>>
           ELSE bulk' = TRUE /\ clock' = 0 /\ pc' = "login" /\ UNCHANGED exitCode
    /\ UNCHANGED <<rev, argVars, channel, attempted, loginState, pollVars, ingestVars, stdout, createVars, renderVars, protoVars>>

\* channel->send_msg( MonLoginMsg() )
Login ==
    /\ pc = "login"
    /\ \E ok \in BOOLEAN :
        IF ok THEN loginState' = "ok" /\ pc' = "poll" /\ UNCHANGED exitCode
        ELSE loginState' = "failed" /\ Return(EXIT_CONNECTION_ERR)
    /\ UNCHANGED <<rev, argVars, discVars, bulk, pollVars, ingestVars, stdout, createVars, renderVars, protoVars>>

(***************************************************************************)
(* Ingestion: poll(), then the drain loop.                                 *)
(***************************************************************************)
\* the timeout handed to poll(): rtimeout in the latest revision
PollTimeout == IF rev = "latest" THEN rtimeout ELSE timeout

\* what poll( &pollData, 1, tmo ) can return: an error, readiness, and the
\* time-out 0 only when tmo is not negative (a negative timeout means wait
\* without limit)
PollResults(tmo) == IF tmo >= 0 THEN {0 - 1, 0, 1} ELSE {0 - 1, 1}

\* a poll time-out handled as an error in every revision
AfterPoll_TimeoutIsError(res) ==
    IF res <= 0 THEN "err" ELSE "drain"

\* a poll error handled like a time-out
AfterPoll_ErrorIgnored(res) ==
    IF res <= 0 THEN (IF rev = "single" THEN "err" ELSE "aggregate")
    ELSE "drain"

\* where main() goes after a poll that returned res
AfterPoll(res) ==
    IF res < 0 THEN "err"
    ELSE IF res = 0 THEN (IF rev = "single" THEN "err" ELSE "aggregate")
    ELSE "drain"

Poll ==
    /\ pc = "poll"
    /\ pollCount < MaxPolls
    /\ pollCount' = pollCount + 1
    /\ pollArg' = PollTimeout
    /\ \E res \in PollResults(PollTimeout) :
        /\ pollRes' = res
        /\ IF AfterPoll(res) = "err" THEN Return(EXIT_CONNECTION_ERR)
           ELSE pc' = AfterPoll(res) /\ UNCHANGED exitCode
    /\ wasPollUseful' = FALSE
    /\ drained' = 0
    /\ lastMsg' = NoMsg
    /\ UNCHANGED <<rev, argVars, discVars, chanVars, nodes, hostIdMax,
                   uselessPollsInARow, stdout, createVars, renderVars, protoVars>>

\* poll() with a negative timeout and no event: it never returns
PollBlocks ==
    /\ pc = "poll"
    /\ pollCount < MaxPolls
    /\ PollTimeout < 0
    /\ pollCount' = pollCount + 1
    /\ pollArg' = PollTimeout
    /\ pc' = "blocked"
    /\ UNCHANGED <<rev, argVars, discVars, chanVars, pollRes, ingestVars,
                   exitCode, stdout, createVars, renderVars, protoVars>>

\* NodeInfo::create on the messages the scheduler can send, worked out once
CreateTable == {<<m, NodeInfoCreate(m[1], m[2])>> : m \in HostIds \X StatBlobs}
CreateOf(hostid, statmsg) ==
    (CHOOSE p \in CreateTable : p[1] = <<hostid, statmsg>>)[2]

\* the comparison with >= for >
Accepts_AtLeast(nodeInfo, max) == nodeInfo.kind = "node" /\ nodeInfo.hostId >= max

\* the test of the hostId left out
Accepts_Any(nodeInfo, max) == nodeInfo.kind = "node"

\* nodeInfo && nodeInfo->hostId() > hostIdMax
Accepts(nodeInfo, max) == nodeInfo.kind = "node" /\ nodeInfo.hostId > max

\* the record of a MonStatsMsg taken: its hostid and statmsg, what create
\* made of them (node / null / throw) and whether the node was appended
StatsMsg(hostid, statmsg, nodeInfo, accepted) ==
    [type |-> "M_MON_STATS", hostid |-> hostid, statmsg |-> statmsg,
     created |-> nodeInfo.kind, sample |-> nodeInfo, accepted |-> accepted]

\* get_msg() returned a MonStatsMsg
DrainStats ==
    /\ pc = "drain"
    /\ drained < MaxDrain
    /\ \E hostid \in HostIds, statmsg \in StatBlobs :
        LET nodeInfo == CreateOf(hostid, statmsg)
        IN  /\ drained' = drained + 1
            /\ IF nodeInfo.kind = "throw"
               THEN /\ pc' = "aborted"
                    /\ lastMsg' = StatsMsg(hostid, statmsg, nodeInfo, FALSE)
                    /\ UNCHANGED <<nodes, hostIdMax, wasPollUseful>>
               ELSE /\ pc' = "drain"
                    /\ lastMsg' = StatsMsg(hostid, statmsg, nodeInfo,
                                             Accepts(nodeInfo, hostIdMax))
                    /\ IF Accepts(nodeInfo, hostIdMax)
                       THEN /\ hostIdMax' = nodeInfo.hostId
                            /\ nodes' = Append(nodes, nodeInfo)
                            /\ wasPollUseful' = (rev # "single")
                       ELSE UNCHANGED <<nodes, hostIdMax, wasPollUseful>>
    /\ UNCHANGED <<rev, argVars, discVars, chanVars, pollVars,
                   uselessPollsInARow, exitCode, stdout, createVars, renderVars, protoVars>>

\* M_END handled like a message of another type
DrainEnd_Ignored ==
    /\ pc = "drain"
    /\ drained < MaxDrain
    /\ drained' = drained + 1
    /\ lastMsg' = [type |-> "M_END"]
    /\ UNCHANGED <<rev, pc, argVars, discVars, chanVars, pollVars, nodes, hostIdMax,
                   wasPollUseful, uselessPollsInARow, exitCode, stdout, createVars, renderVars, protoVars>>

\* get_msg() returned M_END
DrainEnd ==
    /\ pc = "drain"
    /\ drained < MaxDrain
    /\ drained' = drained + 1
    /\ lastMsg' = [type |-> "M_END"]
    /\ Return(EXIT_CONNECTION_ERR)
    /\ UNCHANGED <<rev, argVars, discVars, chanVars, pollVars, nodes, hostIdMax,
                   wasPollUseful, uselessPollsInARow, stdout, createVars, renderVars, protoVars>>

\* get_msg() returned a message of another type
DrainOther ==
    /\ pc = "drain"
    /\ drained < MaxDrain
    /\ drained' = drained + 1
    /\ lastMsg' = [type |-> "other"]
    /\ UNCHANGED <<rev, pc, argVars, discVars, chanVars, pollVars, nodes, hostIdMax,
                   wasPollUseful, uselessPollsInARow, exitCode, stdout, createVars, renderVars, protoVars>>

\* the drain condition held but get_msg() returned no message
DrainNull ==
    /\ pc = "drain"
    /\ drained < MaxDrain
    /\ drained' = drained + 1
    /\ lastMsg' = [type |-> "null"]
    /\ Return(EXIT_CONNECTION_ERR)
    /\ UNCHANGED <<rev, argVars, discVars, chanVars, pollVars, nodes, hostIdMax,
                   wasPollUseful, uselessPollsInARow, stdout, createVars, renderVars, protoVars>>

\* the counter never reset
NextUseless_NoReset(useful, n) == IF ~useful THEN n + 1 ELSE n

\* the streak counter after a ready poll
NextUseless(useful, n) == IF ~useful THEN n + 1 ELSE 0

\* the condition of the outer do / while, after a ready poll
PollAgain(res, useful, useless) ==
    IF rev = "single" THEN FALSE
    ELSE IF rev = "streak"
         THEN res # 0 /\ useless < USELESS_POLLS_IN_A_ROW_MAX
    ELSE res # 0 /\ useful

\* the drain condition ( !read_a_bit() || has_msg() ) is false: the end of
\* the iteration and the condition of the outer loop
DrainDone ==
    /\ pc = "drain"
    /\ uselessPollsInARow' =
          IF rev = "streak" THEN NextUseless(wasPollUseful, uselessPollsInARow)
          ELSE uselessPollsInARow
    /\ pc' = IF PollAgain(pollRes, wasPollUseful, uselessPollsInARow')
             THEN "poll" ELSE "aggregate"
    /\ lastMsg' = NoMsg
    /\ UNCHANGED <<rev, argVars, discVars, chanVars, pollVars, drained, nodes,
                   hostIdMax, wasPollUseful, exitCode, stdout, createVars, renderVars, protoVars>>

(***************************************************************************)
(* Aggregation and output.                                                 *)
(***************************************************************************)
noOffline == "no-offline" \in flags
noNoRemote == "no-noremote" \in flags
brief == "brief" \in flags
noTable == brief \/ "no-table" \in flags
plain == "plain" \in flags
ascii == "ascii" \in flags

\* the predicate of the all_of: the node is filtered out
Excluded(node) == (noOffline /\ node.offline) \/ (noNoRemote /\ node.noRemote)

\* only the nodes that are neither offline nor without remote jobs
Shown_OnlineOnly(node) == ~node.offline /\ ~node.noRemote

\* the predicate of the count_if and of the row loop: the node is shown
Shown(node) == (~noOffline \/ ~node.offline) /\ (~noNoRemote \/ ~node.noRemote)

\* the test without the all_of
NoUsefulData_EmptyOnly(ns) == ns = <<>>

\* nodes.empty() || all_of( ... )
NoUsefulData(ns) == ns = <<>> \/ \A i \in 1..Len(ns) : Excluded(ns[i])

\* the lambda without its test: every node is counted
CoreStep_CountsAll(count, node) == U32Add(count, node.maxJobs)

\* the lambda of the accumulate
CoreStep(count, node) ==
    IF ~node.noRemote /\ ~node.offline THEN U32Add(count, node.maxJobs) ELSE count

RECURSIVE Accumulate(_, _)
Accumulate(ns, count) ==
    IF ns = <<>> THEN count ELSE Accumulate(Tail(ns), CoreStep(count, Head(ns)))

CoreCount(ns) == Accumulate(ns, U32Zero)
NodeCount(ns) == Cardinality({i \in 1..Len(ns) : Shown(ns[i])})

\* the hostIds of the table's rows, in order
RECURSIVE TableRows(_)
TableRows(ns) ==
    IF ns = <<>> THEN <<>>
    ELSE (IF Shown(Head(ns)) THEN <<Head(ns).hostId>> ELSE <<>>) \o TableRows(Tail(ns))

SummaryLine(ns) == [kind |-> "summary", nodeCount |-> NodeCount(ns), coreCount |-> CoreCount(ns)]
BriefLine(ns) == [kind |-> "brief", coreCount |-> CoreCount(ns)]
TableBlock(ns) == [kind |-> "table", rows |-> TableRows(ns)]

\* the older revisions' trans.reset() in every revision
TranslitFailureIsFatal_Never == FALSE

\* whether renderTable ends the process when icu::Transliterator::createInstance
\* fails: std::exit( EXIT_LIBRARY_ERR ) in the latest revision only
TranslitFailureIsFatal == rev = "latest"

\* what main() prints once the loop has ended normally, and its status
Aggregate ==
    /\ pc = "aggregate"
    /\ pc' = "done"
    /\ IF NoUsefulData(nodes)
       THEN exitCode' = EXIT_NO_DATA /\ UNCHANGED <<stdout, trans>>
       ELSE IF brief
       THEN exitCode' = EXIT_OK /\ stdout' = <<BriefLine(nodes)>> /\ UNCHANGED trans
       ELSE IF noTable
       THEN exitCode' = EXIT_OK /\ stdout' = <<SummaryLine(nodes)>> /\ UNCHANGED trans
       ELSE \E transOk \in BOOLEAN :
               /\ ~ascii => transOk
               /\ IF ~transOk /\ TranslitFailureIsFatal
                  THEN exitCode' = EXIT_LIBRARY_ERR /\ UNCHANGED <<stdout, trans>>
                  ELSE /\ exitCode' = EXIT_OK
                       /\ trans' = (ascii /\ transOk)
                       /\ stdout' = <<TableBlock(nodes), SummaryLine(nodes)>>
    /\ UNCHANGED <<rev, argVars, discVars, chanVars, pollVars, ingestVars, createVars,
                   header, strings, colMaxLens, data, lens, table, protoVars>>

Next ==
    \/ ParseArgs
    \/ Attempt
    \/ PostLoop
    \/ Login
    \/ Poll
    \/ PollBlocks
    \/ DrainStats
    \/ DrainEnd
    \/ DrainOther
    \/ DrainNull
    \/ DrainDone
    \/ Aggregate

Spec == Init /\ [][Next]_vars

\* main() under a scheduler that lets every step that can be taken be taken:
\* a call that can return does return
SpecFair == Spec /\ WF_vars(Next)

(***************************************************************************)
(* NodeInfo::create called by itself on a bounded set of blobs.            *)
(***************************************************************************)
InitCreate ==
    /\ rev = "latest"
    /\ pc = "create"
    /\ timeout = TIMEOUT_DEFAULT
    /\ rtimeout = RTIMEOUT_DEFAULT
    /\ flags = {}
    /\ channel = FALSE
    /\ provTimedOut = FALSE
    /\ clock = 0
    /\ attempted = FALSE
    /\ retries = 0
    /\ pollRetries = 0
    /\ threadStatus = 0
    /\ attempts = 0
    /\ timeouts = 0
    /\ bulk = FALSE
    /\ loginState = "no"
    /\ pollCount = 0
    /\ pollArg = 0
    /\ pollRes = 0
    /\ drained = 0
    /\ nodes = <<>>
    /\ hostIdMax = 0
    /\ wasPollUseful = FALSE
    /\ uselessPollsInARow = 0
    /\ lastMsg = NoMsg
    /\ exitCode = NoExit
    /\ stdout = <<>>
    /\ pHostId \in 0..MaxParseHostId
    /\ pStats \in ParseBlobs \cup {BlobSpaced, BlobUnspaced} \cup StatBlobs
    /\ pRes = NullNode
    /\ header = <<>>
    /\ strings = <<>>
    /\ trans = FALSE
    /\ colMaxLens = <<>>
    /\ data = <<>>
    /\ lens = <<>>
    /\ table = <<>>

\* create up to the end of its while( true ) loop: pRes is res, the record
\* the lines have filled (hostId 0 returns before it, std::stoi throws out
\* of it)
CreateScan ==
    /\ pc = "create"
    /\ IF pHostId = 0
       THEN pRes' = NullNode /\ pc' = "created"
       ELSE LET res == ScanLines(pStats, 0, NewNodeInfo(pHostId))
            IN  /\ pRes' = res
                /\ pc' = IF res.kind = "throw" THEN "created" ELSE "scanned"
    /\ UNCHANGED <<rev, argVars, discVars, chanVars, pollVars, ingestVars,
                   exitCode, stdout, pHostId, pStats, renderVars, protoVars>>

\* the end of create: if( !res->isValid() ) res.reset(); return res
CreateCheck ==
    /\ pc = "scanned"
    /\ pRes' = IF ~isValid(pRes) THEN NullNode ELSE pRes
    /\ pc' = "created"
    /\ UNCHANGED <<rev, argVars, discVars, chanVars, pollVars, ingestVars,
                   exitCode, stdout, pHostId, pStats, renderVars, protoVars>>

NextCreate == CreateScan \/ CreateCheck

SpecCreate == InitCreate /\ [][NextCreate]_vars

(***************************************************************************)
(* The aggregation by itself, from the end of the ingestion loop, on a     *)
(* bounded set of record collections: up to MaxAggNodes records create     *)
(* made, with hostIds that increase.                                       *)
(***************************************************************************)
LineMaxJobs8 == <<"m","a","x","j","o","b","s",":","8">>
LineMaxJobsMax == <<"m","a","x","j","o","b","s",":","2","1","4","7","4","8","3","6","4","7">>
LineMaxJobsNegative == <<"m","a","x","j","o","b","s",":","-","1">>

AggBlob(maxjobsLine, more) ==
    LineName \o LF \o LineIp \o LF \o maxjobsLine \o LF \o LinePlatform \o LF \o more
AggBlobs == {AggBlob(LineMaxJobs, <<>>), AggBlob(LineMaxJobs8, <<>>),
             AggBlob(LineMaxJobsMax, <<>>), AggBlob(LineMaxJobsNegative, <<>>),
             AggBlob(LineMaxJobs, LineOffline \o LF),
             AggBlob(LineMaxJobs8, LineNoRemote \o LF),
             AggBlob(LineMaxJobs, LineOffline \o LF \o LineNoRemote \o LF)}
AggRecords == {NodeInfoCreate(h, b) : h \in 1..MaxAggNodes, b \in AggBlobs}
NodeSeqs ==
    {s \in UNION {[1..n -> AggRecords] : n \in 0..MaxAggNodes} :
        \A i \in 1..(Len(s) - 1) : s[i].hostId < s[i + 1].hostId}
AggFlagSets ==
    {f \cup g : f \in SUBSET {"no-offline", "no-noremote"},
                g \in {{}, {"brief"}, {"no-table"}, {"ascii"}}}

\* the polls a loop has made when it ends without a time-out
PollsAtEnd(r) ==
    IF r = "streak" THEN USELESS_POLLS_IN_A_ROW_MAX + 1
    ELSE IF r = "latest" THEN 2 ELSE 1

InitAggregate ==
    /\ rev \in Revisions
    /\ pc = "aggregate"
    /\ timeout = TIMEOUT_DEFAULT
    /\ rtimeout = RTIMEOUT_DEFAULT
    /\ flags \in AggFlagSets
    /\ channel = TRUE
    /\ provTimedOut = FALSE
    /\ clock = 0
    /\ attempted = FALSE
    /\ retries = 0
    /\ pollRetries = 0
    /\ threadStatus = 0
    /\ attempts = 0
    /\ timeouts = 0
    /\ bulk = TRUE
    /\ loginState = "ok"
    /\ pollCount = PollsAtEnd(rev)
    /\ pollArg = TIMEOUT_DEFAULT
    /\ pollRes = 1
    /\ drained = 0
    /\ nodes \in NodeSeqs
    /\ hostIdMax = IF nodes = <<>> THEN 0 ELSE nodes[Len(nodes)].hostId
    /\ wasPollUseful = FALSE
    /\ uselessPollsInARow =
          IF rev = "streak" THEN USELESS_POLLS_IN_A_ROW_MAX ELSE 0
    /\ lastMsg = NoMsg
    /\ exitCode = NoExit
    /\ stdout = <<>>
    /\ pHostId = 0
    /\ pStats = <<>>
    /\ pRes = NullNode
    /\ header = <<>>
    /\ strings = <<>>
    /\ trans = FALSE
    /\ colMaxLens = <<>>
    /\ data = <<>>
    /\ lens = <<>>
    /\ table = <<>>

SpecAggregate == InitAggregate /\ [][Aggregate]_vars

(***************************************************************************)
(* renderTable( header, strings, plain, ascii ).  A cell is a sequence of  *)
(* characters already decoded (the Encoding of a column only chooses the   *)
(* converter); "U+...." stands for the one character of that code point.   *)
(* Cells are indexed as in the code: data[columnCount * r + c], row 0 the  *)
(* header row.                                                             *)
(***************************************************************************)
VERT_LINE_7BIT == "|"
CROSS_7BIT == "+"
HOR_LINE_7BIT == "-"
VERT_LINE_UTF8 == "U+2502"
CROSS_UTF8 == "U+253C"
HOR_LINE_UTF8 == "U+2500"

ColumnHeader(alignment, name) == [alignment |-> alignment, name |-> name]

CellTexts == {<<>>, <<"U+00DF", "c", "d">>}
Headers == {ColumnHeader(a, <<"a", "b">>) : a \in {"Left", "Right", "Center"}}
RenderInputs ==
    {[header |-> h, strings |-> s] :
        h \in UNION {[1..c -> Headers] : c \in 1..MaxCols},
        s \in UNION {[1..n -> CellTexts] : n \in 1..(MaxCols * MaxRows)}}
RenderCalls ==
    {in \in RenderInputs :
        /\ Len(in.strings) % Len(in.header) = 0
        /\ Len(in.strings) \div Len(in.header) <= MaxRows}

columnCount == Len(header)
rowCount == Len(strings) \div columnCount

\* header[c].name() for row 0, strings[columnCount * (r - 1) + c] below it
origStr(c, r) ==
    IF r = 0 THEN header[c + 1].name
    ELSE strings[columnCount * (r - 1) + c + 1]

\* Latin-ASCII on one character: the sharp s becomes "ss"
TransliterateChar(ch) == IF ch = "U+00DF" THEN <<"s", "s">> ELSE <<ch>>

RECURSIVE transliterate(_)
transliterate(str) ==
    IF str = <<>> THEN <<>>
    ELSE TransliterateChar(Head(str)) \o transliterate(Tail(str))

\* res before the margin: converted, and transliterated if( trans )
Converted(c, r) ==
    IF trans THEN transliterate(origStr(c, r)) ELSE origStr(c, r)

\* the margin: if( !plain ) { if( c == 0 ) ... else if( c == columnCount - 1 ) ... }
MarginBefore(c) == ~plain /\ c = 0
\* the margin given to every column but the first
MarginAfter_Interior(c) == ~plain /\ c # 0

MarginAfter(c) == ~plain /\ c # 0 /\ c = columnCount - 1

WithMargin(c, res) ==
    IF MarginBefore(c) THEN <<" ">> \o res
    ELSE IF MarginAfter(c) THEN res \o <<" ">>
    ELSE res

\* the length without the ++len of the margin
MeasuredLen_NoMargin(c, res) == Len(res)

\* len = res.length(), and ++len with the margin
MeasuredLen(c, res) ==
    Len(res) + (IF MarginBefore(c) \/ MarginAfter(c) THEN 1 ELSE 0)

\* maxLen of column c after the rows 0..r: maxLen = std::max( maxLen, len )
RECURSIVE MaxLenOf(_, _, _)
MaxLenOf(ls, c, r) ==
    IF r < 0 THEN 0
    ELSE LET maxLen == MaxLenOf(ls, c, r - 1)
             len == ls[columnCount * r + c]
         IN  IF maxLen < len THEN len ELSE maxLen

Spaces(n) == [k \in 1..n |-> " "]

\* Center with the odd space put before the text
Padded_ExtraBefore(str, len, maxLen, align) ==
    IF len < maxLen
    THEN LET lenDiff == maxLen - len
         IN  CASE align = "Left" -> str \o Spaces(lenDiff)
               [] align = "Right" -> Spaces(lenDiff) \o str
               [] align = "Center" ->
                    Spaces(lenDiff - lenDiff \div 2) \o str \o Spaces(lenDiff \div 2)
    ELSE str

\* the switch( align ) of the padding loop
Padded(str, len, maxLen, align) ==
    IF len < maxLen
    THEN LET lenDiff == maxLen - len
         IN  CASE align = "Left" -> str \o Spaces(lenDiff)
               [] align = "Right" -> Spaces(lenDiff) \o str
               [] align = "Center" ->
                    Spaces(lenDiff \div 2) \o str \o Spaces(lenDiff - lenDiff \div 2)
    ELSE str

\* the bordered separator also when plain
Separator_Bordered ==
    <<" ", IF ascii THEN VERT_LINE_7BIT ELSE VERT_LINE_UTF8, " ">>

\* what is appended between two cells of a row
Separator ==
    IF plain THEN <<" ">>
    ELSE <<" ", IF ascii THEN VERT_LINE_7BIT ELSE VERT_LINE_UTF8, " ">>

\* the cells 0..c of row r as they are appended to table
RECURSIVE RowText(_, _)
RowText(r, c) ==
    IF c < 0 THEN <<>>
    ELSE RowText(r, c - 1) \o (IF c > 0 THEN Separator ELSE <<>>)
         \o data[columnCount * r + c]

\* the rich glyph whatever ascii says
HorLine_Rich == HOR_LINE_UTF8

HorLine == IF ascii THEN HOR_LINE_7BIT ELSE HOR_LINE_UTF8
Cross == IF ascii THEN CROSS_7BIT ELSE CROSS_UTF8

\* the horizontal line below the header, columns 0..c
RECURSIVE HeaderLine(_)
HeaderLine(c) ==
    IF c < 0 THEN <<>>
    ELSE HeaderLine(c - 1) \o (IF c > 0 THEN <<HorLine, Cross, HorLine>> ELSE <<>>)
         \o [i \in 1..colMaxLens[c] |-> HorLine]

\* table after the rows 0..r
RECURSIVE TableText(_)
TableText(r) ==
    IF r < 0 THEN <<>>
    ELSE TableText(r - 1) \o RowText(r, columnCount - 1) \o <<"\n">>
         \o (IF r = 0 /\ ~plain
             THEN HeaderLine(columnCount - 1) \o <<"\n">>
             ELSE <<>>)

InitRender ==
    /\ rev \in Revisions
    /\ pc = "render"
    /\ timeout = TIMEOUT_DEFAULT
    /\ rtimeout = RTIMEOUT_DEFAULT
    /\ flags \in SUBSET {"plain", "ascii"}
    /\ channel = TRUE
    /\ provTimedOut = FALSE
    /\ clock = 0
    /\ attempted = FALSE
    /\ retries = 0
    /\ pollRetries = 0
    /\ threadStatus = 0
    /\ attempts = 0
    /\ timeouts = 0
    /\ bulk = TRUE
    /\ loginState = "ok"
    /\ pollCount = PollsAtEnd(rev)
    /\ pollArg = TIMEOUT_DEFAULT
    /\ pollRes = 1
    /\ drained = 0
    /\ nodes = <<>>
    /\ hostIdMax = 0
    /\ wasPollUseful = FALSE
    /\ uselessPollsInARow =
          IF rev = "streak" THEN USELESS_POLLS_IN_A_ROW_MAX ELSE 0
    /\ lastMsg = NoMsg
    /\ exitCode = NoExit
    /\ stdout = <<>>
    /\ pHostId = 0
    /\ pStats = <<>>
    /\ pRes = NullNode
    /\ \E in \in RenderCalls : header = in.header /\ strings = in.strings
    /\ trans = FALSE
    /\ colMaxLens = <<>>
    /\ data = <<>>
    /\ lens = <<>>
    /\ table = <<>>

\* Init Transliterator
RenderStart ==
    /\ pc = "render"
    /\ \E created \in BOOLEAN :
        IF ascii /\ ~created /\ TranslitFailureIsFatal
        THEN Return(EXIT_LIBRARY_ERR) /\ UNCHANGED trans
        ELSE trans' = (ascii /\ created) /\ pc' = "measure" /\ UNCHANGED exitCode
    /\ UNCHANGED <<rev, argVars, discVars, chanVars, pollVars, ingestVars, stdout,
                   createVars, header, strings, colMaxLens, data, lens, table, protoVars>>

\* the first pair of loops: every cell converted, measured and given its
\* margin, and the maximum of each column
Measure ==
    /\ pc = "measure"
    /\ lens' = [i \in 0..(columnCount * (rowCount + 1) - 1) |->
                  MeasuredLen(i % columnCount,
                              Converted(i % columnCount, i \div columnCount))]
    /\ data' = [i \in 0..(columnCount * (rowCount + 1) - 1) |->
                  WithMargin(i % columnCount,
                             Converted(i % columnCount, i \div columnCount))]
    /\ colMaxLens' = [c \in 0..(columnCount - 1) |-> MaxLenOf(lens', c, rowCount)]
    /\ pc' = "pad"
    /\ UNCHANGED <<rev, argVars, discVars, chanVars, pollVars, ingestVars, exitCode,
                   stdout, createVars, header, strings, trans, table, protoVars>>

\* Pad the strings
Pad ==
    /\ pc = "pad"
    /\ data' = [i \in DOMAIN data |->
                  Padded(data[i], lens[i], colMaxLens[i % columnCount],
                         header[(i % columnCount) + 1].alignment)]
    /\ pc' = "emit"
    /\ UNCHANGED <<rev, argVars, discVars, chanVars, pollVars, ingestVars, exitCode,
                   stdout, createVars, header, strings, trans, colMaxLens, lens, table, protoVars>>

\* Render the table
Emit ==
    /\ pc = "emit"
    /\ table' = TableText(rowCount)
    /\ pc' = "rendered"
    /\ UNCHANGED <<rev, argVars, discVars, chanVars, pollVars, ingestVars, exitCode,
                   stdout, createVars, header, strings, trans, colMaxLens, data, lens, protoVars>>

NextRender ==
    \/ RenderStart
    \/ Measure
    \/ Pad
    \/ Emit

SpecRender == InitRender /\ [][NextRender]_vars

(***************************************************************************)
(* The prototype: main() of icequery.cpp, which connects, logs in and      *)
(* prints every statmsg it is sent, and its pollingThreadEntry().          *)
(***************************************************************************)

\* what the prototype never touches
protoFrame == <<rev, argVars, provTimedOut, clock, attempted, pollCount, nodes,
                hostIdMax, wasPollUseful, uselessPollsInARow, createVars, renderVars>>

InitProto ==
    /\ rev = "prototype"
    /\ pc = "p_discover"
    /\ timeout = 2000000
    /\ rtimeout = 0
    /\ flags = {}
    /\ channel = FALSE
    /\ provTimedOut = FALSE
    /\ clock = 0
    /\ attempted = FALSE
    /\ retries = 0
    /\ pollRetries = 0
    /\ threadStatus = 0
    /\ attempts = 0
    /\ timeouts = 0
    /\ bulk = FALSE
    /\ loginState = "no"
    /\ pollCount = 0
    /\ pollArg = 0
    /\ pollRes = 0
    /\ drained = 0
    /\ nodes = <<>>
    /\ hostIdMax = 0
    /\ wasPollUseful = FALSE
    /\ uselessPollsInARow = 0
    /\ lastMsg = NoMsg
    /\ exitCode = NoExit
    /\ stdout = <<>>
    /\ pHostId = 0
    /\ pStats = <<>>
    /\ pRes = NullNode
    /\ header = <<>>
    /\ strings = <<>>
    /\ trans = FALSE
    /\ colMaxLens = <<>>
    /\ data = <<>>
    /\ lens = <<>>
    /\ table = <<>>

\* one iteration of the do / while of main(): try_get_scheduler(), the count
\* of the failure, the condition
ProtoAttempt ==
    /\ pc = "p_discover"
    /\ \E got \in BOOLEAN :
        /\ channel' = got
        /\ attempts' = attempts + 1
        /\ retries' = IF ~got /\ retries < maxRetries THEN retries + 1 ELSE retries
        /\ pc' = IF ~got /\ retries' < maxRetries THEN "p_discover" ELSE "p_postloop"
    /\ UNCHANGED <<protoFrame, chanVars, pollArg, pollRes, drained, lastMsg, exitCode,
                   stdout, pollRetries, threadStatus, timeouts>>

\* after the loop: the null check (timed_out() only chooses a message on
\* stderr), setBulkTransfer()
ProtoPostLoop ==
    /\ pc = "p_postloop"
    /\ IF ~channel
       THEN Return(1) /\ UNCHANGED bulk
       ELSE bulk' = TRUE /\ pc' = "p_login" /\ UNCHANGED exitCode
    /\ UNCHANGED <<protoFrame, channel, loginState, pollArg, pollRes, drained, lastMsg,
                   stdout, protoVars>>

\* send_msg( MonLoginMsg() )
ProtoLogin ==
    /\ pc = "p_login"
    /\ \E ok \in BOOLEAN :
        IF ok THEN loginState' = "ok" /\ pc' = "p_poll" /\ UNCHANGED exitCode
        ELSE loginState' = "failed" /\ Return(1)
    /\ UNCHANGED <<protoFrame, channel, bulk, pollArg, pollRes, drained, lastMsg,
                   stdout, protoVars>>

\* the retry counter set back to 0 by a poll() that found data
ProtoPoll_Consecutive ==
    /\ pc = "p_poll"
    /\ pollArg' = pollTimeout
    /\ \E res \in PollResults(pollTimeout) :
        /\ pollRes' = res
        /\ timeouts' = IF res = 0 THEN timeouts + 1 ELSE timeouts
        /\ IF res < 0
           THEN threadStatus' = 1 /\ pc' = "p_return" /\ UNCHANGED pollRetries
           ELSE IF res = 0
           THEN IF pollRetries < maxPollRetries
                THEN pollRetries' = pollRetries + 1 /\ pc' = "p_poll" /\ UNCHANGED threadStatus
                ELSE threadStatus' = 1 /\ pc' = "p_return" /\ UNCHANGED pollRetries
           ELSE pc' = "p_drain" /\ pollRetries' = 0 /\ UNCHANGED threadStatus
    /\ drained' = 0
    /\ lastMsg' = NoMsg
    /\ UNCHANGED <<protoFrame, channel, chanVars, exitCode, stdout, retries, attempts>>

\* one iteration of while( true ) up to the drain: poll(), the error, the
\* time-out and its retry budget
ProtoPoll ==
    /\ pc = "p_poll"
    /\ pollArg' = pollTimeout
    /\ \E res \in PollResults(pollTimeout) :
        /\ pollRes' = res
        /\ timeouts' = IF res = 0 THEN timeouts + 1 ELSE timeouts
        /\ IF res < 0
           THEN threadStatus' = 1 /\ pc' = "p_return" /\ UNCHANGED pollRetries
           ELSE IF res = 0
           THEN IF pollRetries < maxPollRetries
                THEN pollRetries' = pollRetries + 1 /\ pc' = "p_poll" /\ UNCHANGED threadStatus
                ELSE threadStatus' = 1 /\ pc' = "p_return" /\ UNCHANGED pollRetries
           ELSE pc' = "p_drain" /\ UNCHANGED <<pollRetries, threadStatus>>
    /\ drained' = 0
    /\ lastMsg' = NoMsg
    /\ UNCHANGED <<protoFrame, channel, chanVars, exitCode, stdout, retries, attempts>>

\* get_msg() returned a MonStatsMsg: its statmsg is printed
ProtoDrainStats ==
    /\ pc = "p_drain"
    /\ drained < MaxDrain
    /\ Len(stdout) < MaxPrinted
    /\ \E statmsg \in {BlobPlain, BlobBadMaxJobs} :
        /\ lastMsg' = [type |-> "M_MON_STATS", statmsg |-> statmsg]
        /\ stdout' = Append(stdout, [kind |-> "statmsg", text |-> statmsg])
    /\ drained' = drained + 1
    /\ UNCHANGED <<protoFrame, pc, channel, chanVars, pollArg, pollRes, exitCode, protoVars>>

\* get_msg() returned M_END
ProtoDrainEnd ==
    /\ pc = "p_drain"
    /\ drained < MaxDrain
    /\ drained' = drained + 1
    /\ lastMsg' = [type |-> "M_END"]
    /\ threadStatus' = 1
    /\ pc' = "p_return"
    /\ UNCHANGED <<protoFrame, channel, chanVars, pollArg, pollRes, exitCode, stdout,
                   retries, pollRetries, attempts, timeouts>>

\* get_msg() returned a message of another type
ProtoDrainOther ==
    /\ pc = "p_drain"
    /\ drained < MaxDrain
    /\ drained' = drained + 1
    /\ lastMsg' = [type |-> "other"]
    /\ UNCHANGED <<protoFrame, pc, channel, chanVars, pollArg, pollRes, exitCode, stdout,
                   protoVars>>

\* the drain condition held but get_msg() returned no message
ProtoDrainNull ==
    /\ pc = "p_drain"
    /\ drained < MaxDrain
    /\ drained' = drained + 1
    /\ lastMsg' = [type |-> "null"]
    /\ threadStatus' = 1
    /\ pc' = "p_return"
    /\ UNCHANGED <<protoFrame, channel, chanVars, pollArg, pollRes, exitCode, stdout,
                   retries, pollRetries, attempts, timeouts>>

\* the drain condition is false: the next iteration of while( true )
ProtoDrainDone ==
    /\ pc = "p_drain"
    /\ pc' = "p_poll"
    /\ lastMsg' = NoMsg
    /\ UNCHANGED <<protoFrame, channel, chanVars, pollArg, pollRes, drained, exitCode,
                   stdout, protoVars>>

\* main() returning the thread's status
ProtoExitCode_ThreadStatus == threadStatus

\* what main() returns after pollingThreadEntry()
ProtoExitCode == 0

\* pollingThreadEntry() has returned: return 0
ProtoReturn ==
    /\ pc = "p_return"
    /\ Return(ProtoExitCode)
    /\ UNCHANGED <<protoFrame, channel, chanVars, pollArg, pollRes, drained, lastMsg,
                   stdout, protoVars>>

NextProto ==
    \/ ProtoAttempt
    \/ ProtoPostLoop
    \/ ProtoLogin
    \/ ProtoPoll
    \/ ProtoDrainStats
    \/ ProtoDrainEnd
    \/ ProtoDrainOther
    \/ ProtoDrainNull
    \/ ProtoDrainDone
    \/ ProtoReturn

SpecProto == InitProto /\ [][NextProto]_vars

(***************************************************************************)
(* Properties.                                                             *)
(***************************************************************************)
RECURSIVE MaxHostIdOf(_)
MaxHostIdOf(ns) ==
    IF ns = <<>> THEN 0
    ELSE LET m == MaxHostIdOf(Tail(ns))
         IN  IF Head(ns).hostId > m THEN Head(ns).hostId ELSE m

EndedWithConnectionError == pc = "done" /\ exitCode = EXIT_CONNECTION_ERR
PollTimedOut == pollCount > 0 /\ pollRes = 0 /\ pc # "blocked"

\* a step that takes one MonStatsMsg: it appends the record and raises
\* hostIdMax exactly when create gave a node whose hostId is above hostIdMax
C1_StatsStep ==
    (drained' = drained + 1 /\ lastMsg'.type = "M_MON_STATS" /\ pc' # "aborted") =>
        LET m == lastMsg'
            ok == m.created = "node" /\ m.hostid > hostIdMax
        IN  /\ (nodes' # nodes) <=> ok
            /\ m.accepted <=> ok
            /\ ok => /\ Len(nodes') = Len(nodes) + 1
                     /\ SubSeq(nodes', 1, Len(nodes)) = nodes
                     /\ nodes'[Len(nodes')].hostId = m.hostid
                     /\ hostIdMax' = m.hostid
            /\ ~ok => hostIdMax' = hostIdMax

C1_HighWaterMark ==
    /\ hostIdMax = MaxHostIdOf(nodes)
    /\ \A i, j \in 1..Len(nodes) : i < j => nodes[i].hostId < nodes[j].hostId
    /\ \A i, j \in 1..Len(nodes) : nodes[i].hostId = nodes[j].hostId => i = j

\* C1: a stats message is accepted iff create returns a record and its
\* hostId is strictly above hostIdMax; then the record is appended and
\* hostIdMax becomes its hostId.  So hostIdMax is always the largest hostId
\* in nodes (0 when empty), the hostIds in nodes increase strictly in
\* acceptance order and no two records share a hostId.
C1_AcceptIffAboveMax == [][C1_StatsStep]_vars /\ []C1_HighWaterMark

\* a valid record was turned away after two others were accepted
C1_Witness ==
    /\ Len(nodes) >= 2
    /\ lastMsg.type = "M_MON_STATS"
    /\ lastMsg.created = "node"
    /\ ~lastMsg.accepted

\* C2: whenever M_END is taken from the channel, in any poll iteration and
\* after any number of accepted records, the run ends at once with exit
\* code 2 and nothing (no table, no summary) was printed.
C2_EndOfSessionIsFatal ==
    lastMsg.type = "M_END" =>
        EndedWithConnectionError /\ stdout = <<>>

\* M_END arrived in a later poll, after a record was accepted
C2_Witness ==
    /\ lastMsg.type = "M_END"
    /\ pollCount >= 2
    /\ nodes # <<>>
    /\ pc = "done"

\* C3: in the looping revisions, when the first poll times out before any
\* message was received, the loop ends without error, no record was accepted
\* and the run ends with exit code 3, not 2.
C3_FirstPollTimeoutIsNoData ==
    (rev # "single" /\ pollCount = 1 /\ PollTimedOut) =>
        /\ pc \in {"aggregate", "done"}
        /\ nodes = <<>>
        /\ pc = "done" => (exitCode = EXIT_NO_DATA /\ stdout = <<>>)

C3_Witness ==
    /\ rev # "single"
    /\ pollCount = 1
    /\ PollTimedOut
    /\ pc = "done"
    /\ exitCode = EXIT_NO_DATA

\* the steps of the useless-streak loop
C4_StreakStep ==
    rev = "streak" =>
        \* a poll that returns ends the loop exactly when it timed out (an
        \* error ends the run)
        /\ (pc = "poll" /\ pc' \notin {"poll", "blocked"}) =>
              /\ (pc' = "aggregate") <=> (pollRes' = 0)
              /\ (pc' = "drain") <=> (pollRes' > 0)
              /\ uselessPollsInARow' = uselessPollsInARow
        \* the end of a drain: the counter, and the loop ends exactly at 3
        /\ (pc = "drain" /\ pc' \in {"poll", "aggregate"}) =>
              /\ uselessPollsInARow' =
                    IF wasPollUseful THEN 0 ELSE uselessPollsInARow + 1
              /\ (pc' = "aggregate") <=>
                    (uselessPollsInARow' = USELESS_POLLS_IN_A_ROW_MAX)
        \* nothing else touches the counter
        /\ (pc = "drain" /\ pc' \notin {"poll", "aggregate"}) =>
              uselessPollsInARow' = uselessPollsInARow

C4_StreakRange ==
    rev = "streak" =>
        /\ uselessPollsInARow \in 0..USELESS_POLLS_IN_A_ROW_MAX
        /\ pc = "aggregate" =>
              (PollTimedOut \/ uselessPollsInARow = USELESS_POLLS_IN_A_ROW_MAX)
        /\ pc \in {"poll", "drain"} =>
              uselessPollsInARow < USELESS_POLLS_IN_A_ROW_MAX

\* C4: in the useless-streak revision the loop stops exactly when a poll
\* times out or uselessPollsInARow reaches 3; a ready poll whose drain
\* accepted nothing adds one to the counter, one that accepted a record
\* resets it to 0, and 0 <= uselessPollsInARow <= 3 always.
C4_UselessStreak == [][C4_StreakStep]_vars /\ []C4_StreakRange

\* the loop stopped on the third useless poll in a row
C4_Witness ==
    /\ rev = "streak"
    /\ pc = "aggregate"
    /\ pollRes > 0
    /\ uselessPollsInARow = USELESS_POLLS_IN_A_ROW_MAX

\* C5: in the single-shot revision a poll wait that times out with no
\* message before it gives the no-usable-data outcome (exit code 3), not an
\* error (exit code 2).
C5_SingleShotTimeoutIsNoData ==
    (rev = "single" /\ pollCount = 1 /\ PollTimedOut /\ pc = "done") =>
        exitCode = EXIT_NO_DATA

\* C6: a poll failure (poll returns a negative value), or a drain step in
\* which get_msg returns no message, ends the run at once with exit code 2,
\* in any iteration and whatever was accepted, with nothing on stdout.
C6_PollErrorAndNullMsgAreFatal ==
    ((pollCount > 0 /\ pollRes < 0) \/ lastMsg.type = "null") =>
        EndedWithConnectionError /\ stdout = <<>>

\* get_msg gave no message in a later poll, after a record was accepted
C6_Witness ==
    /\ lastMsg.type = "null"
    /\ pollCount >= 2
    /\ nodes # <<>>
    /\ pc = "done"

ChannelUnused == ~bulk /\ loginState = "no" /\ pollCount = 0

C7_DiscoveryStep ==
    \* the loop goes round again only without a channel and within the deadline
    /\ (pc = "discover" /\ pc' = "discover") => (~channel' /\ clock' <= timeout)
    \* without a channel after the loop, the run ends there with exit code 2
    /\ (pc = "postloop" /\ ~channel) =>
          (pc' = "done" /\ exitCode' = EXIT_CONNECTION_ERR /\ ChannelUnused')

C7_DiscoveryState ==
    \* timed_out() answered true, in the loop or after it
    /\ provTimedOut => (EndedWithConnectionError /\ ChannelUnused)
    \* the loop is left without a channel only past the deadline
    /\ pc = "postloop" => (channel \/ clock > timeout)

\* C7: discovery ends in exit code 2, with no bulk mode, login or poll, when
\* timed_out() is true after an attempt or after the loop, or when there is
\* no channel and the time since the first attempt exceeds the timeout.
C7_DiscoveryTimesOut == [][C7_DiscoveryStep]_vars /\ []C7_DiscoveryState

\* the deadline passed without a channel and timed_out() turned true only
\* in the check after the loop
C7_Witness ==
    /\ provTimedOut
    /\ ~channel
    /\ clock > timeout
    /\ timeout >= 0
    /\ pc = "done"

C8_ChannelStep ==
    \* the login is sent on a channel already in bulk mode
    /\ loginState' # loginState => (bulk /\ loginState = "no")
    \* a poll or a drain happens only after the login was sent with success
    /\ (pollCount' # pollCount \/ drained' # drained) => loginState = "ok"

C8_ChannelState ==
    /\ loginState # "no" => bulk
    /\ pc \in {"login", "poll", "drain", "aggregate", "blocked", "aborted"} => bulk
    /\ pollCount > 0 => loginState = "ok"
    /\ loginState = "failed" =>
          (EndedWithConnectionError /\ pollCount = 0 /\ drained = 0 /\ lastMsg = NoMsg)

\* C8: with a channel, bulk transfer is set before the login is sent and the
\* login is sent before the first poll; a failed login ends the run with
\* exit code 2 and no poll or drain is ever done.
C8_BulkThenLoginThenPoll == [][C8_ChannelStep]_vars /\ []C8_ChannelState

C8_Witness ==
    /\ bulk
    /\ loginState = "ok"
    /\ pollCount > 0
    /\ drained > 0

\* C9: for every accepted --timeout / --rtimeout value the timeout handed
\* to poll() (the int that is also the discovery deadline) is a non-negative
\* number of milliseconds, and no poll wait blocks for ever.
C9_WaitsAreBounded ==
    /\ pollCount > 0 => pollArg >= 0
    /\ pc # "blocked"

(***************************************************************************)
(* What a blob says, read line by line without the scanner of create.      *)
(***************************************************************************)
RECURSIVE SplitLines(_, _)
SplitLines(str, line) ==
    IF str = <<>> THEN <<line>>
    ELSE IF Head(str) = "\n" THEN <<line>> \o SplitLines(Tail(str), <<>>)
    ELSE SplitLines(Tail(str), Append(line, Head(str)))

ColonAt(line) == CHOOSE i \in 1..Len(line) :
                    line[i] = ":" /\ \A j \in 1..(i - 1) : line[j] # ":"
HasColon(line) == \E i \in 1..Len(line) : line[i] = ":"
LowerOf(c) ==
    CASE c = "A" -> "a" [] c = "E" -> "e" [] c = "I" -> "i" [] c = "M" -> "m"
      [] c = "N" -> "n" [] c = "O" -> "o" [] c = "P" -> "p" [] c = "R" -> "r"
      [] c = "S" -> "s" [] c = "T" -> "t" [] c = "F" -> "f" [] c = "L" -> "l"
      [] OTHER -> c
Lowered(str) == [i \in 1..Len(str) |-> LowerOf(str[i])]
KeyOf(line) == Lowered(SubSeq(line, 1, ColonAt(line) - 1))
ValueOf(line) == SubSeq(line, ColonAt(line) + 1, Len(line))

\* the lines of the blob that set key, and the value the last of them gives
LinesOf(stats, key) ==
    LET ls == SplitLines(stats, <<>>)
    IN  {i \in 1..Len(ls) : HasColon(ls[i]) /\ KeyOf(ls[i]) = key}
LastValue(stats, key) ==
    LET ls == SplitLines(stats, <<>>)
        is == LinesOf(stats, key)
    IN  ValueOf(ls[CHOOSE i \in is : \A j \in is : j <= i])

MissingOrEmpty(stats, key) ==
    LinesOf(stats, key) = {} \/ LastValue(stats, key) = <<>>
MissingOrZero(stats, key) ==
    \/ LinesOf(stats, key) = {}
    \/ LET n == stoi(LastValue(stats, key)) IN n.ok /\ n.val = 0

LacksRequiredField(stats) ==
    \/ MissingOrEmpty(stats, STR_name)
    \/ MissingOrEmpty(stats, STR_ip)
    \/ MissingOrEmpty(stats, STR_platform)
    \/ MissingOrZero(stats, STR_maxjobs)

\* C10: for every hostId and every blob in which name, ip or platform is
\* missing or empty, or maxjobs is missing or zero, create returns the null
\* record; so it does for hostId 0, whatever the blob.
C10_MissingFieldGivesAbsent ==
    (pc = "created" /\ (pHostId = 0 \/ LacksRequiredField(pStats))) =>
        pRes = NullNode

\* the part of C10 the code keeps: absent unless std::stoi threw
C10_AbsentUnlessThrown ==
    (pc = "created" /\ (pHostId = 0 \/ LacksRequiredField(pStats))) =>
        (pRes = NullNode \/ (pRes.kind = "throw" /\ pHostId # 0))

STR_alpha == <<"a","l","p","h","a">>
STR_10_0_0_1 == <<"1","0",".","0",".","0",".","1">>
STR_x86_64 == <<"x","8","6","_","6","4">>

\* C11: create( 1, "name: alpha\\nip: 10.0.0.1\\nmaxjobs: 4\\nplatform: x86_64\\n" ),
\* a space after each colon, gives a valid record whose fields are exactly
\* name "alpha", ip "10.0.0.1", maxJobs 4, noRemote false, offline false,
\* platform "x86_64".
C11_ScenarioA ==
    (pc = "created" /\ pHostId = 1 /\ pStats = BlobSpaced) =>
        pRes = [kind |-> "node", hostId |-> 1, name |-> STR_alpha,
                ip |-> STR_10_0_0_1, maxJobs |-> U32(0, 4), noRemote |-> FALSE,
                offline |-> FALSE, platform |-> STR_x86_64]

\* what the code gives on that blob: the record is valid and maxJobs is 4,
\* but each text field keeps the space that follows the colon
C11_ScenarioAKeepsSpace ==
    (pc = "created" /\ pHostId = 1 /\ pStats = BlobSpaced) =>
        pRes = [kind |-> "node", hostId |-> 1, name |-> <<" ">> \o STR_alpha,
                ip |-> <<" ">> \o STR_10_0_0_1, maxJobs |-> U32(0, 4),
                noRemote |-> FALSE, offline |-> FALSE,
                platform |-> <<" ">> \o STR_x86_64]

(***************************************************************************)
(* The record a blob describes, read line by line.                         *)
(***************************************************************************)
\* the maxjobs lines whose value std::stoi rejects
BadMaxJobsLines(stats) ==
    LET ls == SplitLines(stats, <<>>)
    IN  {i \in LinesOf(stats, STR_maxjobs) : ~stoi(ValueOf(ls[i])).ok}

TextField(stats, key) ==
    IF LinesOf(stats, key) = {} THEN <<>> ELSE LastValue(stats, key)
FlagField(stats, key, word) ==
    LinesOf(stats, key) # {} /\ Lowered(LastValue(stats, key)) = word
NumberField(stats, key) ==
    IF LinesOf(stats, key) = {} THEN U32Zero
    ELSE IntToU32(stoi(LastValue(stats, key)).val)

RecordOf(hostId, stats) ==
    [kind |-> "node", hostId |-> hostId,
     name |-> TextField(stats, STR_name),
     ip |-> TextField(stats, STR_ip),
     maxJobs |-> NumberField(stats, STR_maxjobs),
     noRemote |-> FlagField(stats, STR_noremote, STR_true),
     offline |-> FlagField(stats, STR_state, STR_offline),
     platform |-> TextField(stats, STR_platform)]

FullyValid(r) ==
    /\ r.hostId > 0
    /\ Len(r.name) > 0
    /\ Len(r.ip) > 0
    /\ Len(r.platform) > 0
    /\ r.maxJobs.hi + r.maxJobs.lo > 0

\* what create gives when it reads the blob as lines of key:value
ReadAsLines(hostId, stats) ==
    IF hostId = 0 THEN NullNode
    ELSE IF BadMaxJobsLines(stats) # {}
    THEN LET ls == SplitLines(stats, <<>>)
             bad == BadMaxJobsLines(stats)
             first == CHOOSE i \in bad : \A j \in bad : i <= j
         IN  Thrown(stoi(ValueOf(ls[first])).what)
    ELSE IF FullyValid(RecordOf(hostId, stats)) THEN RecordOf(hostId, stats)
    ELSE NullNode

\* C12: a stats message whose maxjobs value is not a number is dropped
\* silently: create returns the null record, nodes and hostIdMax stay as
\* they are, the drain goes on with the next message, and the run is never
\* ended by the blob.
C12_MalformedBlobIsDropped ==
    (lastMsg.type = "M_MON_STATS" /\ BadMaxJobsLines(lastMsg.statmsg) # {}) =>
        /\ lastMsg.created = "null"
        /\ ~lastMsg.accepted
        /\ pc = "drain"

\* C13: create reads the blob as newline-separated lines.  On each line the
\* text before the first colon, lower-cased, is the key and the text after
\* it up to the end of the line (or of the blob) is the value; keys match
\* whatever their case and order, unknown keys and lines without a colon
\* change nothing, and the fields are those the other lines set.  (A maxjobs
\* value std::stoi rejects ends the scan at that line with its exception.)
C13_BlobIsReadAsLines ==
    /\ pc = "scanned" =>
          (BadMaxJobsLines(pStats) = {} /\ pRes = RecordOf(pHostId, pStats))
    /\ pc = "created" => pRes = ReadAsLines(pHostId, pStats)

\* a valid record out of a blob with an upper-case key, a value that holds
\* a colon, an unknown key and a line without a colon
C13_Witness ==
    /\ pc = "scanned"
    /\ pRes.name = <<"b">>
    /\ pRes.ip = <<"1", ":", "2">>
    /\ \E i \in 1..Len(pStats) - 3 : SubSeq(pStats, i, i + 3) = LineJunk
    /\ \E i \in 1..Len(pStats) - 2 : SubSeq(pStats, i, i + 2) = <<"f", "o", "o">>

\* the hostIds of the rows printed in the table, if one was printed
PrintedRows ==
    IF \E i \in 1..Len(stdout) : stdout[i].kind = "table"
    THEN (CHOOSE b \in {stdout[i] : i \in 1..Len(stdout)} : b.kind = "table").rows
    ELSE <<>>

\* C14: in every reachable state every record in nodes is fully valid
\* (hostId > 0, name, ip and platform not empty, maxJobs > 0); a record
\* create rejected is never appended, and every row of the table is the row
\* of such a record.
C14_NodesAreFullyValid ==
    /\ \A i \in 1..Len(nodes) : nodes[i].kind = "node" /\ FullyValid(nodes[i])
    /\ (lastMsg.type = "M_MON_STATS" /\ lastMsg.created # "node") => ~lastMsg.accepted
    /\ \A r \in 1..Len(PrintedRows) :
          \E i \in 1..Len(nodes) : nodes[i].hostId = PrintedRows[r]

\* a blob without maxjobs came with a hostId above hostIdMax, after a record
\* was accepted, and was turned away
C14_Witness ==
    /\ nodes # <<>>
    /\ lastMsg.type = "M_MON_STATS"
    /\ lastMsg.statmsg = BlobNoMaxJobs
    /\ lastMsg.hostid > hostIdMax
    /\ lastMsg.created = "null"

\* a step that takes a valid stats message for a hostId nodes already holds
SameHostAgain ==
    /\ drained' = drained + 1
    /\ lastMsg'.type = "M_MON_STATS"
    /\ lastMsg'.created = "node"
    /\ \E i \in 1..Len(nodes) : nodes[i].hostId = lastMsg'.hostid

\* C15: when a later valid stats message arrives for a hostId that already
\* has a record in nodes, that record is superseded: afterwards nodes holds
\* the newer sample for the hostId instead of the older one.
C15_NewerSampleSupersedes ==
    [][SameHostAgain =>
          /\ \E i \in 1..Len(nodes') : nodes'[i] = lastMsg'.sample
          /\ \A i, j \in 1..Len(nodes') :
                (nodes'[i].hostId = lastMsg'.hostid /\ nodes'[j].hostId = lastMsg'.hostid)
                    => i = j]_vars

\* C15 as the code has it: a later valid stats message for a hostId that
\* already has a record in nodes is dropped; nodes and hostIdMax stay as
\* they are, so nodes keeps the older sample and never holds the newer one.
C15_OlderSampleIsKept ==
    [][SameHostAgain =>
          /\ ~lastMsg'.accepted
          /\ nodes' = nodes
          /\ hostIdMax' = hostIdMax]_vars

\* a different sample came for the hostId of a record in nodes
C15_Witness ==
    /\ lastMsg.type = "M_MON_STATS"
    /\ lastMsg.created = "node"
    /\ \E i \in 1..Len(nodes) :
          nodes[i].hostId = lastMsg.hostid /\ nodes[i] # lastMsg.sample

\* a step that takes a message that is not to be accepted: of another type,
\* a stats blob that gives no valid record, or a hostId not above hostIdMax
TakesUnacceptable ==
    /\ drained' = drained + 1
    /\ \/ lastMsg'.type = "other"
       \/ /\ lastMsg'.type = "M_MON_STATS"
          /\ (lastMsg'.created # "node" \/ lastMsg'.hostid <= hostIdMax)

C16_NodesChangeByAppend ==
    (nodes' # nodes \/ hostIdMax' # hostIdMax) =>
        /\ lastMsg'.type = "M_MON_STATS"
        /\ lastMsg'.accepted
        /\ Len(nodes') = Len(nodes) + 1
        /\ SubSeq(nodes', 1, Len(nodes)) = nodes
        /\ hostIdMax' > hostIdMax

\* C16: nodes and hostIdMax change only when a stats message is accepted,
\* and then by appending one record and raising hostIdMax.  A message of
\* another type, an invalid stats blob and a stats message whose hostId is
\* not above hostIdMax leave both as they are and are not errors: the drain
\* goes on.  No step changes, moves or removes a record already in nodes.
C16_OnlyAcceptanceChangesNodes ==
    [][/\ C16_NodesChangeByAppend
       /\ TakesUnacceptable =>
             /\ nodes' = nodes
             /\ hostIdMax' = hostIdMax
             /\ pc' = "drain"
             /\ exitCode' = NoExit]_vars

\* the part of C16 the code keeps: the frame, and no error unless std::stoi
\* threw in create
C16_FrameUnlessThrown ==
    [][/\ C16_NodesChangeByAppend
       /\ TakesUnacceptable =>
             /\ nodes' = nodes
             /\ hostIdMax' = hostIdMax
             /\ exitCode' = NoExit
             /\ pc' = IF lastMsg'.type = "M_MON_STATS" /\ lastMsg'.created = "throw"
                      THEN "aborted" ELSE "drain"]_vars

(***************************************************************************)
(* The counts of a collection, worked out from the records.  The sum of    *)
(* the maxJobs can pass 2^32: it is kept in three limbs [top, hi, lo].     *)
(***************************************************************************)
Counted(r) == ~r.noRemote /\ ~r.offline
Displayed(r) ==
    /\ ("no-offline" \notin flags \/ ~r.offline)
    /\ ("no-noremote" \notin flags \/ ~r.noRemote)

WideAdd(w, u) ==
    LET lo == w.lo + u.lo
        hi == w.hi + u.hi + (lo \div Limb)
    IN  [top |-> w.top + (hi \div Limb), hi |-> hi % Limb, lo |-> lo % Limb]

RECURSIVE SumOfCounted(_)
SumOfCounted(ns) ==
    IF ns = <<>> THEN [top |-> 0, hi |-> 0, lo |-> 0]
    ELSE IF Counted(ns[Len(ns)])
         THEN WideAdd(SumOfCounted(SubSeq(ns, 1, Len(ns) - 1)), ns[Len(ns)].maxJobs)
         ELSE SumOfCounted(SubSeq(ns, 1, Len(ns) - 1))

RECURSIVE DisplayedHostIds(_)
DisplayedHostIds(ns) ==
    IF ns = <<>> THEN <<>>
    ELSE DisplayedHostIds(SubSeq(ns, 1, Len(ns) - 1)) \o
         (IF Displayed(ns[Len(ns)]) THEN <<ns[Len(ns)].hostId>> ELSE <<>>)

\* the lines main() printed
Printed(kind) == {stdout[i] : i \in {j \in 1..Len(stdout) : stdout[j].kind = kind}}
PrintedCoreCounts == {l.coreCount : l \in Printed("brief") \cup Printed("summary")}
AggregatedAndPrinted == pc = "done" /\ PrintedCoreCounts # {}

\* C17: coreCount is the sum of maxJobs over exactly the accepted records
\* with noRemote = false and offline = false; a record with noRemote or
\* offline set is never in it, and the value is the same under all four
\* combinations of the filter flags.
C17_CoreCountIsTheSum ==
    AggregatedAndPrinted =>
        \A c \in PrintedCoreCounts :
            /\ SumOfCounted(nodes).top = 0
            /\ c = U32(SumOfCounted(nodes).hi, SumOfCounted(nodes).lo)

\* C17 as the code has it: coreCount is that sum modulo 2^32 (it is a
\* uint32_t), whatever the filter flags.
C17_CoreCountIsTheSumMod32 ==
    AggregatedAndPrinted =>
        \A c \in PrintedCoreCounts :
            c = U32(SumOfCounted(nodes).hi, SumOfCounted(nodes).lo)

\* the sum passed 2^32 and was printed under both filters
C17_Witness ==
    /\ AggregatedAndPrinted
    /\ SumOfCounted(nodes).top > 0
    /\ {"no-offline", "no-noremote"} \subseteq flags

\* two nodes, the first offline with maxJobs 4, the second online with 8
ScenarioC ==
    /\ Len(nodes) = 2
    /\ nodes[1].offline /\ ~nodes[1].noRemote /\ nodes[1].maxJobs = U32(0, 4)
    /\ ~nodes[2].offline /\ ~nodes[2].noRemote /\ nodes[2].maxJobs = U32(0, 8)

NoRecordDisplayed == \A i \in 1..Len(nodes) : ~Displayed(nodes[i])

\* C19: after the ingestion ended normally the run ends with exit code 3 if
\* and only if nodes is empty or every record is excluded by the filters,
\* that is iff nodeCount would be 0; otherwise it ends with exit code 0, also
\* when coreCount is 0.  A summary with nodeCount = 0 is never printed.
C19_NoDataIffNothingDisplayed ==
    pc = "done" =>
        /\ (exitCode = EXIT_NO_DATA) <=> NoRecordDisplayed
        /\ ~NoRecordDisplayed => exitCode = EXIT_OK
        /\ \A l \in Printed("summary") : l.nodeCount > 0

\* C19 as the code has it: exit code 3 iff nothing would be displayed;
\* otherwise exit code 0 with the counts printed, also when coreCount is 0,
\* except that the latest revision ends with exit code 4 and prints nothing
\* when the table is to be drawn with --ascii and the transliterator cannot
\* be created.  A summary with nodeCount = 0 is never printed.
C19_NoDataIffNothingDisplayedOrLibraryError ==
    pc = "done" =>
        /\ (exitCode = EXIT_NO_DATA) <=> NoRecordDisplayed
        /\ ~NoRecordDisplayed =>
              \/ exitCode = EXIT_OK /\ PrintedCoreCounts # {}
              \/ /\ exitCode = EXIT_LIBRARY_ERR
                 /\ stdout = <<>>
                 /\ rev = "latest"
                 /\ flags \cap {"ascii", "brief", "no-table"} = {"ascii"}
        /\ exitCode = EXIT_NO_DATA => stdout = <<>>
        /\ \A l \in Printed("summary") : l.nodeCount > 0

\* every displayed node is offline: exit code 0 with coreCount 0
C19_Witness ==
    /\ pc = "done"
    /\ exitCode = EXIT_OK
    /\ nodes # <<>>
    /\ \A l \in Printed("summary") : l.coreCount = U32Zero /\ l.nodeCount > 0
    /\ Printed("summary") # {}

(***************************************************************************)
(* The layout of a table, worked out from the cells.                       *)
(***************************************************************************)
\* the display width of a cell after its margin: one space more in the
\* first and in the last column unless plain
CellWidth(c, r) ==
    Len(Converted(c, r)) +
    (IF "plain" \notin flags /\ (c = 0 \/ c = Len(header) - 1) THEN 1 ELSE 0)

ColumnWidth(c) ==
    CHOOSE w \in {CellWidth(c, r) : r \in 0..rowCount} :
        \A r \in 0..rowCount : CellWidth(c, r) <= w

BorderGlyph == IF "ascii" \in flags THEN "|" ELSE "U+2502"
ColumnSeparator ==
    IF "plain" \in flags THEN <<" ">> ELSE <<" ", BorderGlyph, " ">>

\* the widths of the columns 0..(columnCount - 1)
ColumnWidths == [c \in 0..(Len(header) - 1) |-> ColumnWidth(c)]

\* where column c starts in a row line, the widths being w
RECURSIVE ColumnOffset(_, _)
ColumnOffset(w, c) ==
    IF c = 0 THEN 0
    ELSE ColumnOffset(w, c - 1) + w[c - 1] + Len(ColumnSeparator)

\* the index in the output of the line of row r: the separator line follows
\* the header unless plain
RowLineIndex(r) == IF r = 0 \/ "plain" \in flags THEN r + 1 ELSE r + 2

\* the columns of the line that are followed by a separator
SeparatorsIn(line, w) ==
    {c \in 0..(Len(header) - 2) :
        SubSeq(line, ColumnOffset(w, c) + w[c] + 1, ColumnOffset(w, c + 1))
            = ColumnSeparator}

\* C20: in the output of renderTable every row line, the header row and
\* each data row, holds the same number of column separators, columnCount - 1,
\* one after each column but the last; the width of a column is the largest
\* display width after margin among its header cell and its data cells; and
\* the widths of all columns are fixed before any cell is padded.
C20_SeparatorsAndWidths ==
    /\ pc \in {"pad", "emit", "rendered"} => colMaxLens = ColumnWidths
    /\ pc = "pad" =>
          \A c \in 0..(Len(header) - 1), r \in 0..rowCount :
              Len(data[Len(header) * r + c]) = CellWidth(c, r)
    /\ pc = "rendered" =>
          LET w == ColumnWidths
              lines == SplitLines(table, <<>>)
              last == Len(header) - 1
          IN  \A r \in 0..rowCount :
                LET line == lines[RowLineIndex(r)]
                IN  /\ Len(line) = ColumnOffset(w, last) + w[last]
                    /\ Cardinality(SeparatorsIn(line, w)) = last
                    /\ "plain" \notin flags =>
                          Cardinality({i \in 1..Len(line) : line[i] = BorderGlyph})
                              = last

\* three columns and two rows with borders: a column whose header is its
\* widest cell and a column whose widest cell is a data cell
C20_Witness ==
    /\ pc = "rendered"
    /\ Len(header) = MaxCols
    /\ rowCount = MaxRows
    /\ "plain" \notin flags
    /\ \E c \in 0..(Len(header) - 1) : ColumnWidth(c) = CellWidth(c, 0)
    /\ \E c \in 0..(Len(header) - 1) : ColumnWidth(c) > CellWidth(c, 0)

\* a cell with its margin, before the padding
MarginText(c, r) ==
    IF "plain" \in flags THEN Converted(c, r)
    ELSE IF c = 0 THEN <<" ">> \o Converted(c, r)
    ELSE IF c = Len(header) - 1 THEN Converted(c, r) \o <<" ">>
    ELSE Converted(c, r)

Blanks(n) == [k \in 1..n |-> " "]

\* the cell padded to the width of its column, the deficit being d
PaddedCell(c, r) ==
    LET d == ColumnWidth(c) - CellWidth(c, r)
        a == header[c + 1].alignment
    IN  IF a = "Left" THEN MarginText(c, r) \o Blanks(d)
        ELSE IF a = "Right" THEN Blanks(d) \o MarginText(c, r)
        ELSE Blanks(d \div 2) \o MarginText(c, r) \o Blanks(d - d \div 2)

\* C21: renderTable pads every cell to exactly the width of its column.
\* With the deficit d = column width - cell width, a Left column gets d
\* spaces after the text and none before, a Right column d before and none
\* after, a Center column floor(d/2) before and d - floor(d/2) after, the odd
\* space after the text; a cell with d = 0 is unchanged; so all the row
\* lines of a table are equally wide.
C21_CellsArePadded ==
    /\ pc \in {"emit", "rendered"} =>
          \A c \in 0..(Len(header) - 1), r \in 0..rowCount :
              LET cell == data[Len(header) * r + c]
              IN  /\ cell = PaddedCell(c, r)
                  /\ Len(cell) = ColumnWidth(c)
                  /\ ColumnWidth(c) = CellWidth(c, r) => cell = MarginText(c, r)
    /\ pc = "rendered" =>
          LET lines == SplitLines(table, <<>>)
          IN  \A r \in 0..rowCount :
                Len(lines[RowLineIndex(r)]) = Len(lines[1])

\* a Center column with an odd deficit, a Right and a Left column padded
C21_Witness ==
    /\ pc = "rendered"
    /\ \E c \in 0..(Len(header) - 1), r \in 0..rowCount :
          /\ header[c + 1].alignment = "Center"
          /\ (ColumnWidth(c) - CellWidth(c, r)) % 2 = 1
    /\ \E c \in 0..(Len(header) - 1), r \in 0..rowCount :
          header[c + 1].alignment = "Right" /\ ColumnWidth(c) > CellWidth(c, r)
    /\ \E c \in 0..(Len(header) - 1), r \in 0..rowCount :
          header[c + 1].alignment = "Left" /\ ColumnWidth(c) > CellWidth(c, r)

\* C22: unless plain is set every cell of the first column and of the last
\* column, the header cell too, gets exactly one space of margin, which is
\* counted in its measured width before the maximum of the column is
\* taken; no cell of an interior column gets one; with plain no cell does.
C22_MarginOfOuterColumns ==
    pc \in {"pad"} =>
        \A c \in 0..(Len(header) - 1), r \in 0..rowCount :
            LET cell == data[Len(header) * r + c]
                len == lens[Len(header) * r + c]
                outer == c = 0 \/ c = Len(header) - 1
            IN  /\ len = Len(cell)
                /\ colMaxLens[c] >= len
                /\ IF "plain" \notin flags /\ outer
                   THEN /\ len = Len(Converted(c, r)) + 1
                        /\ cell \in {<<" ">> \o Converted(c, r),
                                     Converted(c, r) \o <<" ">>}
                   ELSE cell = Converted(c, r)

\* three columns with borders, measured
C22_Witness ==
    /\ pc = "pad"
    /\ Len(header) = MaxCols
    /\ "plain" \notin flags
    /\ \E r \in 1..rowCount : Converted(1, r) # <<>> /\ Converted(2, r) # <<>>

BorderGlyphs == {"|", "+", "-", "U+2502", "U+253C", "U+2500"}

\* the padded cells 0..c of row r joined by sep
RECURSIVE JoinedCells(_, _, _)
JoinedCells(r, c, sep) ==
    IF c = 0 THEN PaddedCell(0, r)
    ELSE JoinedCells(r, c - 1, sep) \o sep \o PaddedCell(c, r)

\* C23: with plain set, whatever the headers and the rows, the output holds
\* no vertical-bar, cross or horizontal-line glyph put there by the renderer,
\* neighbouring columns are separated by exactly one space, and there is no
\* separator line below the header: the output has exactly rowCount + 1
\* lines.
C23_PlainHasNoBorders ==
    (pc = "rendered" /\ "plain" \in flags) =>
        LET lines == SplitLines(table, <<>>)
        IN  /\ Len(lines) = rowCount + 2
            /\ lines[rowCount + 2] = <<>>
            /\ \A i \in 1..Len(table) : table[i] \notin BorderGlyphs
            /\ \A r \in 0..rowCount :
                  lines[r + 1] = JoinedCells(r, Len(header) - 1, <<" ">>)

\* a table of two columns and one row, plain
C23_Witness ==
    /\ pc = "rendered"
    /\ "plain" \in flags
    /\ Len(header) = 2
    /\ rowCount = 1

RuleGlyph == IF "ascii" \in flags THEN "-" ELSE "U+2500"
CrossGlyph == IF "ascii" \in flags THEN "+" ELSE "U+253C"
OtherGlyphs ==
    IF "ascii" \in flags THEN {"U+2502", "U+253C", "U+2500"} ELSE {"|", "+", "-"}

\* the runs of the columns 0..c joined by joint
RECURSIVE JoinedRuns(_, _)
JoinedRuns(c, joint) ==
    IF c = 0 THEN [k \in 1..ColumnWidth(0) |-> RuleGlyph]
    ELSE JoinedRuns(c - 1, joint) \o joint \o [k \in 1..ColumnWidth(c) |-> RuleGlyph]

\* the separator line and the borders as C24 has them, the runs joined by
\* joint
SeparatorLineIs(joint) ==
    (pc = "rendered" /\ "plain" \notin flags) =>
        LET lines == SplitLines(table, <<>>)
        IN  /\ Len(lines) = rowCount + 3
            /\ lines[rowCount + 3] = <<>>
            /\ lines[2] = JoinedRuns(Len(header) - 1, joint)
            /\ \A r \in 0..rowCount :
                  lines[RowLineIndex(r)] =
                      JoinedCells(r, Len(header) - 1, <<" ", BorderGlyph, " ">>)
            /\ \A i \in 1..Len(table) : table[i] \notin OtherGlyphs

\* C24: unless plain is set there is exactly one horizontal separator line,
\* right after the header row and before the first data row: for each column
\* a run of horizontal-line glyphs as long as the column is wide, neighbouring
\* runs joined by a cross glyph; the line and the column borders use the
\* 7-bit glyphs when ascii is set and the rich glyphs otherwise, never both.
C24_SeparatorLineJoinedByCross == SeparatorLineIs(<<CrossGlyph>>)

\* C24 as the code has it: the runs are joined by a cross glyph with one
\* horizontal-line glyph on each side of it, as wide as the border between
\* two cells, so the separator line is as wide as the rows.
C24_SeparatorLineJoinedByPaddedCross ==
    SeparatorLineIs(<<RuleGlyph, CrossGlyph, RuleGlyph>>)

\* three columns with the 7-bit borders
C24_Witness ==
    /\ pc = "rendered"
    /\ flags = {"ascii"}
    /\ Len(header) = MaxCols
    /\ rowCount = MaxRows

\* C25: in the latest revision, when ascii is set and the transliterator
\* cannot be created, the process ends with exit code 4 having printed no
\* table and no summary line; this is so on every such call, the latest
\* revision never renders with untransliterated text instead, and exit code 4
\* has no other cause.
C25_TranslitFailureIsFatal ==
    /\ exitCode = EXIT_LIBRARY_ERR =>
          /\ pc = "done"
          /\ stdout = <<>>
          /\ rev = "latest"
          /\ "ascii" \in flags
          /\ trans = FALSE
    /\ (rev = "latest" /\ "ascii" \in flags /\ Printed("table") # {}) =>
          trans = TRUE

\* the latest revision asked for ascii ends with the library error
C25_Witness ==
    /\ rev = "latest"
    /\ "ascii" \in flags
    /\ pc = "done"
    /\ exitCode = EXIT_LIBRARY_ERR
    /\ \E i \in 1..Len(nodes) : Displayed(nodes[i])

\* C27: during discovery a time-out reported by the provider wins over a
\* channel returned by the same attempt: when timed_out() is true after an
\* attempt, the run ends with exit code 2 although the attempt returned a
\* channel, and the channel is never used. At least one attempt is always
\* made, also when timeout is 0 (or negative).
C27_TimedOutWinsAndOneAttempt ==
    /\ [][(pc = "discover" /\ provTimedOut') =>
              /\ pc' = "done"
              /\ exitCode' = EXIT_CONNECTION_ERR
              /\ channel' \in BOOLEAN
              /\ ChannelUnused']_vars
    /\ [][pc = "discover" => attempted']_vars
    /\ [](provTimedOut => (pc = "done" /\ exitCode = EXIT_CONNECTION_ERR /\ ChannelUnused))
    /\ []((pc \notin {"args", "discover", "done"} \/ exitCode \in {EXIT_CONNECTION_ERR, EXIT_OK, EXIT_NO_DATA, EXIT_LIBRARY_ERR})
             => attempted)

\* timeout 0: the first attempt returns a channel and the provider reports
\* the time-out
C27_Witness ==
    /\ timeout = 0
    /\ clock = 0
    /\ attempted
    /\ channel
    /\ provTimedOut
    /\ pc = "done"
    /\ exitCode = EXIT_CONNECTION_ERR

\* 2^32 - 1, which is -1 modulo 2^32
MinusOneMod32 == [hi |-> Limb - 1, lo |-> Limb - 1]

\* the records of nodes that came from "maxjobs:-1": no other blob of the
\* bounded set gives this maxJobs
FromNegativeMaxJobs(r) == r.maxJobs = MinusOneMod32

\* C28: NodeInfo::create accepts a negative maxjobs as valid: the record is
\* made, with maxJobs = n mod 2^32 (4294967295 for -1), it is neither
\* rejected nor clamped to 0; coreCount adds it like any other maxJobs, the
\* sum being taken modulo 2^32 (4294967295 and 8 give 7).
C28_NegativeMaxJobsIsTakenMod32 ==
    /\ \A h \in 1..MaxAggNodes :
          LET made == NodeInfoCreate(h, AggBlob(LineMaxJobsNegative, <<>>))
          IN  /\ made.kind = "node"
              /\ made.hostId = h
              /\ made.maxJobs = MinusOneMod32
              /\ U32ToInt(made.maxJobs) = 0 - 1
    /\ \A i \in 1..Len(nodes) : nodes[i].kind = "node" /\ nodes[i].maxJobs # U32Zero
    /\ AggregatedAndPrinted =>
          \A c \in PrintedCoreCounts :
              /\ c = U32(SumOfCounted(nodes).hi, SumOfCounted(nodes).lo)
              /\ (/\ Len(nodes) = 2
                  /\ Counted(nodes[1]) /\ FromNegativeMaxJobs(nodes[1])
                  /\ Counted(nodes[2]) /\ nodes[2].maxJobs = U32(0, 8))
                 => c = U32(0, 7)

\* a record made from maxjobs:-1 and one with maxJobs 8, both counted, and
\* the sum printed
C28_Witness ==
    /\ AggregatedAndPrinted
    /\ Len(nodes) = 2
    /\ Counted(nodes[1]) /\ FromNegativeMaxJobs(nodes[1])
    /\ Counted(nodes[2]) /\ nodes[2].maxJobs = U32(0, 8)
    /\ PrintedCoreCounts = {U32(0, 7)}

\* the loop of the latest revision has ended: main() is past it, has
\* returned, or the process was terminated
LoopEnded == pc \in {"aggregate", "done", "aborted"}

\* the rule of the loop in the latest revision: wasPollUseful is set by an
\* acceptance and by nothing else, every acceptance raises hostIdMax, and
\* after the drain the loop polls again exactly when the poll was ready and
\* a record was accepted
LatestLoopStep ==
    rev = "latest" =>
        /\ (pc = "drain" /\ pc' = "drain") =>
              /\ wasPollUseful' = (wasPollUseful \/ nodes' # nodes)
              /\ nodes' # nodes => U32ToInt(IntToU32(hostIdMax')) > hostIdMax
        /\ (pc = "drain" /\ pc' \in {"poll", "aggregate"}) =>
              (pc' = "poll" <=> (pollRes > 0 /\ wasPollUseful))
        /\ pc = "poll" => pc' \in {"drain", "aggregate", "done", "blocked"}

\* C26: in the latest revision the loop polls again if and only if the poll
\* reported readiness and at least one record was accepted in the drain;
\* hostIdMax rises with every acceptance and is bounded, so useful
\* iterations cannot go on for ever: on every execution with finite drains
\* the loop eventually ends.
C26_LoopTerminates ==
    /\ [][LatestLoopStep]_vars
    /\ (rev = "latest" /\ pc = "poll") ~> LoopEnded

\* the same for the runs whose poll() can time out (rtimeout is not negative)
C26_LoopTerminatesWhenPollCanTimeOut ==
    /\ [][LatestLoopStep]_vars
    /\ (rev = "latest" /\ pc = "poll" /\ rtimeout >= 0) ~> LoopEnded

\* in the latest revision the bound on the polls is never what stops a run
C26_PollBoundNotReached ==
    (rev = "latest" /\ pc = "poll") => (pollCount <= hostIdMax /\ pollCount < MaxPolls)

\* the polling loop of the prototype is still running
ProtoLoopRuns == pc \in {"p_poll", "p_drain"}

\* C29: in the prototype pollRetries counts the poll time-outs of the whole
\* run, not those in a row: it never decreases and is never set back, also
\* not when data comes between two time-outs; it stays within 0..50; and the
\* loop ends, with threadStatus = 1, on the 51st poll time-out of the run.
C29_PollRetriesIsCumulative ==
    /\ [](/\ pollRetries >= 0
          /\ pollRetries <= 50
          /\ pollRetries = (IF timeouts <= 50 THEN timeouts ELSE 50)
          /\ timeouts <= 51
          /\ ProtoLoopRuns => (timeouts <= 50 /\ threadStatus = 0)
          /\ timeouts = 51 => (pc \in {"p_return", "done"} /\ threadStatus = 1))
    /\ [][/\ pollRetries' >= pollRetries
          /\ pc = "p_drain" => pollRetries' = pollRetries
          /\ (pc = "p_poll" /\ timeouts' > timeouts) =>
                IF timeouts' = 51
                THEN pc' = "p_return" /\ threadStatus' = 1
                ELSE pc' = "p_poll" /\ threadStatus' = 0]_vars

\* the 51st time-out ended the loop, and data had come between time-outs
C29_Witness ==
    /\ timeouts = 51
    /\ pollRetries = 50
    /\ pollRes = 0
    /\ threadStatus = 1
    /\ stdout # <<>>
    /\ pc = "p_return"

\* C30: once the login was sent, the prototype's exit code is 0 however the
\* polling loop ended (poll error, retry budget used up, no message, M_END):
\* threadStatus is set to 1 and never read.  Exit code 1 is returned only
\* when no channel was obtained after at most 51 discovery attempts, or when
\* sending the login failed.
C30_ExitCodeIgnoresThreadStatus ==
    /\ attempts <= 51
    /\ pc = "done" =>
          /\ exitCode \in {0, 1}
          /\ exitCode = 0 <=> loginState = "ok"
          /\ loginState = "ok" => threadStatus = 1
          /\ exitCode = 1 =>
                \/ loginState = "failed" /\ channel /\ threadStatus = 0
                \/ loginState = "no" /\ ~channel /\ threadStatus = 0
    /\ pc # "done" => exitCode = NoExit

\* the loop ended by a poll() error after the login, and main() returned 0
C30_Witness ==
    /\ pc = "done"
    /\ loginState = "ok"
    /\ pollRes < 0
    /\ threadStatus = 1
    /\ exitCode = 0

====
